---- MODULE Spec2Model ----
\* A model of prxy (github.com/Madh93/prxy): the lifecycle of the reverse-proxy
\* server (internal/prxy/prxy.go: New, Run, Shutdown, Addr) and the flow of
\* main.go's Action that drives it (a goroutine running Run, raced against an
\* interrupt signal that leads to Shutdown with a deadline).
\*
\* Prxy.Run and Prxy.Shutdown delegate to net/http.Server.ListenAndServe and
\* net/http.Server.Shutdown. Their steps are modelled at the grain of the
\* synchronisation points of the Go standard library:
\*   ListenAndServe: shuttingDown() check; net.Listen; Serve: trackListener;
\*                   the Accept loop; the deferred untrack and Close.
\*   Shutdown:       inShutdown.Store(true); closeListenersLocked;
\*                   listenerGroup.Wait; the closeIdleConns / timer / ctx.Done loop.
\* Strings whose content matters (addresses) are sequences of one-character
\* strings, so that formatting is computed and not assumed.
EXTENDS Integers, Sequences, FiniteSets, TLC

\* ---------------------------------------------------------------- bounds

\* Client connections the environment opens during one run. A connection is
\* kept alive and carries any number of requests, one after the other.
MaxConns == 1

\* ------------------------------------------------------------- constants

\* The calls of Run and of Shutdown. In main.go there is one of each (call 1);
\* the API specification lets a caller make each call twice.
RunCalls == {1, 2}
ShutdownCalls == {1, 2}

\* The ports the operating system hands out for port 0. Run calls follow one
\* another, so at most one listener is open at a time and one port is enough.
EphemeralPorts == { 49152 }

\* http.StatusBadGateway, the status of the ErrorHandler's response.
StatusBadGateway == 502

\* The statuses the target answers with (streamed back unmodified).
UpstreamStatuses == { 200 }

\* Error values.
Nil == "nil"
ErrServerClosed == "http: Server closed"
ErrListen == "listen: bind failed"
ErrAccept == "accept: failed"
ErrCloseListener == "close: failed"
DeadlineExceeded == "context deadline exceeded"

\* ---------------------------------------------------------------- strings

Digit == <<"0","1","2","3","4","5","6","7","8","9">>

RECURSIVE Itoa(_)
\* strconv.Itoa for n >= 0: the decimal digits of n.
Itoa(n) == IF n < 0 THEN <<"-">> \o Itoa(0 - n)
           ELSE IF n < 10 THEN <<Digit[n + 1]>>
           ELSE Itoa(n \div 10) \o <<Digit[(n % 10) + 1]>>

\* Whether string s holds character ch.
HasChar(s, ch) == \E i \in 1..Len(s) : s[i] = ch

\* net.JoinHostPort: "host:port", or "[host]:port" when the host holds a colon
\* or a percent sign.
JoinHostPort(host, port) ==
  IF HasChar(host, ":") \/ HasChar(host, "%")
    THEN <<"[">> \o host \o <<"]", ":">> \o port
    ELSE host \o <<":">> \o port

\* The text written by http.Error(rw, "Proxy Error: "+err.Error(), 502), as
\* the pieces it is concatenated from (http.Error appends a newline).
ProxyErrorBody(err) == <<"Proxy Error", ": ", err, "\n">>

\* Whether a body (a sequence of pieces) holds the piece.
BodyContains(body, piece) == \E i \in 1..Len(body) : body[i] = piece

\* ------------------------------------------------------------------- URLs

\* The value of F at e, with e evaluated once: a local variable.
With(e, F(_)) == CHOOSE r \in { F(v) : v \in {e} } : TRUE

\* A Go string as the sequence of its characters.
Chars(s) == [i \in 1..Len(s) |-> SubSeq(s, i, i)]

\* The NUL byte, as one character, and the ASCII control characters among the
\* characters the inputs are made of.
NUL == "^@"
CtlChars == { NUL }

LowerLetters == Chars("abcdefghijklmnopqrstuvwxyz")
UpperLetters == Chars("ABCDEFGHIJKLMNOPQRSTUVWXYZ")

\* The characters of a string.
Range(s) == { s[i] : i \in 1..Len(s) }

IsLetter(c) == c \in Range(LowerLetters) \cup Range(UpperLetters)
IsDigit(c) == c \in Range(Digit)

\* strings.ToLower, on ASCII.
ToLowerChar(c) ==
  IF c \in Range(UpperLetters)
    THEN LowerLetters[CHOOSE i \in 1..Len(UpperLetters) : UpperLetters[i] = c]
    ELSE c

ToLower(s) == [i \in 1..Len(s) |-> ToLowerChar(s[i])]

\* The inverse of ToLowerChar, on ASCII.
ToUpperChar(c) ==
  IF c \in Range(LowerLetters)
    THEN UpperLetters[CHOOSE i \in 1..Len(LowerLetters) : LowerLetters[i] = c]
    ELSE c

\* strings.ToUpper, on ASCII.
ToUpper(s) == [i \in 1..Len(s) |-> ToUpperChar(s[i])]

\* strings.IndexByte and strings.LastIndexByte, counting from 1; 0 when absent.
Index(s, c) ==
  IF HasChar(s, c)
    THEN CHOOSE i \in 1..Len(s) : s[i] = c /\ \A j \in 1..(i - 1) : s[j] # c
    ELSE 0

LastIndex(s, c) ==
  IF HasChar(s, c)
    THEN CHOOSE i \in 1..Len(s) : s[i] = c /\ \A j \in (i + 1)..Len(s) : s[j] # c
    ELSE 0

\* strings.Count of one character.
Count(s, c) == Cardinality({ i \in 1..Len(s) : s[i] = c })

\* strings.HasPrefix and strings.HasSuffix.
HasPrefix(s, p) == Len(s) >= Len(p) /\ SubSeq(s, 1, Len(p)) = p
HasSuffix(s, p) == Len(s) >= Len(p) /\ SubSeq(s, Len(s) - Len(p) + 1, Len(s)) = p

\* strings.Cut at the first occurrence of a character.
Cut(s, c) ==
  With(Index(s, c), LAMBDA i :
    IF i = 0 THEN [before |-> s, after |-> <<>>]
             ELSE [before |-> SubSeq(s, 1, i - 1), after |-> SubSeq(s, i + 1, Len(s))])

\* The errors of net/url.
ErrMissingScheme == "missing protocol scheme"
ErrCtlChar == "net/url: invalid control character in URL"
ErrColonInFirstSegment == "first path segment in URL cannot contain colon"
ErrInvalidPort == "invalid port after host"
ErrInvalidHostChar == "invalid character in host name"

\* net/url getScheme: the scheme is the run of letters (after the first
\* character also digits, '+', '-', '.') that ends at a ':'; a ':' in first
\* place is an error; any other character before a ':' means no scheme.
SchemeChar(s, i) ==
  \/ IsLetter(s[i])
  \/ i > 1 /\ (IsDigit(s[i]) \/ s[i] \in {"+", "-", "."})

SchemeStop(rawURL) ==
  IF \A i \in 1..Len(rawURL) : SchemeChar(rawURL, i)
    THEN 0
    ELSE CHOOSE i \in 1..Len(rawURL) :
           ~SchemeChar(rawURL, i) /\ \A j \in 1..(i - 1) : SchemeChar(rawURL, j)

getScheme(rawURL) ==
  With(SchemeStop(rawURL), LAMBDA stop :
    IF stop = 0 \/ rawURL[stop] # ":"
      THEN [scheme |-> <<>>, rest |-> rawURL, err |-> Nil]
    ELSE IF stop = 1
      THEN [scheme |-> <<>>, rest |-> <<>>, err |-> ErrMissingScheme]
    ELSE [scheme |-> SubSeq(rawURL, 1, stop - 1),
          rest |-> SubSeq(rawURL, stop + 1, Len(rawURL)), err |-> Nil])

\* net/url validOptionalPort: "" or ":" followed by digits only.
validOptionalPort(port) ==
  \/ port = <<>>
  \/ port[1] = ":" /\ \A i \in 2..Len(port) : IsDigit(port[i])

\* The characters net/url leaves alone in a host (shouldEscape in encodeHost
\* mode is false); any other ASCII character in a host is an error.
HostChar(c) ==
  \/ IsLetter(c)
  \/ IsDigit(c)
  \/ c \in {"-", "_", ".", "~", "!", "$", "&", "'", "(", ")", "*", "+", ",", ";",
            "=", ":", "[", "]", "<", ">", "\""}

\* net/url parseHost, for hosts that are not bracketed IP literals and hold
\* no percent escape (the inputs hold no '[', '%' or '@').
parseHost(host) ==
  With(LastIndex(host, ":"), LAMBDA i :
    IF i # 0 /\ ~validOptionalPort(SubSeq(host, i, Len(host)))
      THEN [host |-> <<>>, err |-> ErrInvalidPort]
    ELSE IF \E k \in 1..Len(host) : ~HostChar(host[k])
      THEN [host |-> <<>>, err |-> ErrInvalidHostChar]
    ELSE [host |-> host, err |-> Nil])

\* A url.URL (Host holds "host" or "host:port"), with the error of parsing.
EmptyURL == [err |-> Nil, scheme |-> <<>>, opaque |-> <<>>, host |-> <<>>,
             path |-> <<>>, rawQuery |-> <<>>, fragment |-> <<>>]

UrlError(e) == [EmptyURL EXCEPT !.err = e]

\* net/url parse, the authority and the path: u is the URL so far, rest what
\* follows the scheme with the query cut off.
parseAuthorityPath(u, rest) ==
  IF ~HasPrefix(rest, <<"/">>) /\ u.scheme # <<>>
    THEN [u EXCEPT !.opaque = rest]
  ELSE IF ~HasPrefix(rest, <<"/">>) /\ HasChar(Cut(rest, "/").before, ":")
    THEN UrlError(ErrColonInFirstSegment)
  ELSE IF /\ u.scheme # <<>> \/ ~HasPrefix(rest, <<"/", "/", "/">>)
          /\ HasPrefix(rest, <<"/", "/">>)
    THEN With(SubSeq(rest, 3, Len(rest)), LAMBDA auth0 :
         With(Index(auth0, "/"), LAMBDA slash :
         With(IF slash > 0 THEN SubSeq(auth0, 1, slash - 1) ELSE auth0, LAMBDA authority :
         With(parseHost(authority), LAMBDA h :
           IF h.err # Nil
             THEN UrlError(h.err)
             ELSE [u EXCEPT !.host = h.host,
                            !.path = IF slash > 0 THEN SubSeq(auth0, slash, Len(auth0))
                                                  ELSE <<>>]))))
  ELSE [u EXCEPT !.path = rest]

\* net/url parse, the query: a lone trailing '?' is dropped (ForceQuery),
\* otherwise the query is cut off at the first '?'.
parseQuery(scheme, rest) ==
  IF HasSuffix(rest, <<"?">>) /\ Count(rest, "?") = 1
    THEN With(SubSeq(rest, 1, Len(rest) - 1), LAMBDA path :
           parseAuthorityPath([EmptyURL EXCEPT !.scheme = scheme], path))
    ELSE With(Cut(rest, "?"), LAMBDA c :
           parseAuthorityPath([EmptyURL EXCEPT !.scheme = scheme, !.rawQuery = c.after],
                              c.before))

\* net/url parse(rawURL, viaRequest = false), on a string without fragment.
parse(rawURL) ==
  IF \E i \in 1..Len(rawURL) : rawURL[i] \in CtlChars THEN UrlError(ErrCtlChar)
  ELSE IF rawURL = <<"*">> THEN [EmptyURL EXCEPT !.path = rawURL]
  ELSE With(getScheme(rawURL), LAMBDA gs :
         IF gs.err # Nil
           THEN UrlError(gs.err)
           ELSE With(ToLower(gs.scheme), LAMBDA scheme : parseQuery(scheme, gs.rest)))

\* net/url.Parse: the fragment is cut off first, the rest is parsed.
Parse(rawURL) ==
  With(Cut(rawURL, "#"), LAMBDA c :
  With(c.before, LAMBDA before :
  With(parse(before), LAMBDA u :
    IF u.err # Nil THEN u ELSE [u EXCEPT !.fragment = c.after])))

\* The errors of validation.ValidateURL.
ErrCannotParse == "cannot parse URL"
ErrInvalidScheme == "URL scheme is invalid"
ErrEmptyHost == "URL must have a non-empty host"

\* validSchemes of ValidateURL.
ValidSchemes == { Chars("http"), Chars("https") }

\* Mutant of ValidateURL: the host is not checked.
ValidateURLAnyHost(rawURL) ==
  With(Parse(rawURL), LAMBDA parsedURL :
    IF parsedURL.err # Nil THEN ErrCannotParse
    ELSE IF parsedURL.scheme \notin ValidSchemes THEN ErrInvalidScheme
    ELSE Nil)

\* validation.ValidateURL.
ValidateURL(rawURL) ==
  With(Parse(rawURL), LAMBDA parsedURL :
    IF parsedURL.err # Nil THEN ErrCannotParse
    ELSE IF parsedURL.scheme \notin ValidSchemes THEN ErrInvalidScheme
    ELSE IF parsedURL.host = <<>> THEN ErrEmptyHost
    ELSE Nil)

\* The table of TestValidateURL: each input with the error it expects.
UrlTests == {
  [rawURL |-> Chars("http://example.com"), expect |-> Nil],
  [rawURL |-> Chars("https://example.com"), expect |-> Nil],
  [rawURL |-> Chars("http://localhost:8080"), expect |-> Nil],
  [rawURL |-> Chars("https://example.com/path?query=value#fragment"), expect |-> Nil],
  [rawURL |-> Chars("http://127.0.0.1/status"), expect |-> Nil],
  [rawURL |-> Chars("ftp://example.com"), expect |-> ErrInvalidScheme],
  [rawURL |-> Chars("//example.com/path"), expect |-> ErrInvalidScheme],
  [rawURL |-> Chars("/just/a/path"), expect |-> ErrInvalidScheme],
  [rawURL |-> Chars("http://"), expect |-> ErrEmptyHost],
  [rawURL |-> Chars("https://"), expect |-> ErrEmptyHost],
  [rawURL |-> Chars("http:example.com"), expect |-> ErrEmptyHost],
  [rawURL |-> Chars("://leading.colon.com"), expect |-> ErrCannotParse],
  [rawURL |-> Chars("http://exa mple.com"), expect |-> ErrCannotParse],
  [rawURL |-> <<>>, expect |-> ErrInvalidScheme],
  [rawURL |-> Chars("http://example.com/path") \o <<NUL>>, expect |-> ErrCannotParse] }

\* The raw URLs the model draws from: those of the tests, and some more (an
\* upper-case scheme, a base path with a trailing slash, a port that is not a
\* number, a target with a query, a proxy address).
RawURLs ==
  { t.rawURL : t \in UrlTests } \cup
  { Chars("HTTP://example.com"), Chars("https://example.com/api/"),
    Chars("http://example.com:x"), Chars("http://example.com/base?k=v"),
    Chars("http://proxy.test:3128") }

\* config.Defaults.Logging: level info, format text, output stdout; no flag
\* sets the path.
DefaultLogging == [level |-> "info", format |-> "text", output |-> "stdout", path |-> ""]

\* The validated configurations the model runs: the default listen address
\* (localhost, port 0: ephemeral) and an IPv6 host with a fixed port, each
\* with a target, an outbound proxy and the default logging.
Configs == { [host |-> <<"l","o","c","a","l","h","o","s","t">>, port |-> 0,
              target |-> Chars("https://example.com/api/"),
              proxy |-> Chars("http://proxy.test:3128"), logging |-> DefaultLogging],
             [host |-> <<":",":","1">>, port |-> 8080,
              target |-> Chars("http://example.com"),
              proxy |-> Chars("http://proxy.test:3128"), logging |-> DefaultLogging] }

\* ---------------------------------------------------------------- logging

\* log/slog: the levels, as the integers slog.Level gives them.
LevelDebug == -4
LevelInfo == 0
LevelWarn == 4
LevelError == 8

ErrSyntax == "strconv.Atoi: invalid syntax"
ErrUnknownName == "slog: level string: unknown name"
ErrFileClosed == "close: file already closed"
ErrOpenFile == "failed to open log file"
ErrEmptyPath == "internal error: file output mode requires a non-empty path, but path is empty"

\* strings.IndexAny: the position of the first character of s that is one of
\* chars (from 1), 0 when there is none.
IndexAny(s, chars) ==
  IF \E i \in 1..Len(s) : s[i] \in chars
    THEN CHOOSE i \in 1..Len(s) : s[i] \in chars /\ \A j \in 1..(i - 1) : s[j] \notin chars
    ELSE 0

RECURSIVE DigitsValue(_)
\* The number a string of decimal digits writes.
DigitsValue(d) ==
  IF d = <<>> THEN 0
  ELSE 10 * DigitsValue(SubSeq(d, 1, Len(d) - 1))
         + ((CHOOSE i \in 1..10 : Digit[i] = d[Len(d)]) - 1)

\* strconv.Atoi: an optional sign, then one decimal digit or more.
Atoi(s) ==
  With(IF s # <<>> /\ s[1] \in {"+", "-"} THEN Tail(s) ELSE s, LAMBDA d :
    IF d = <<>> \/ \E i \in 1..Len(d) : ~IsDigit(d[i])
      THEN [n |-> 0, err |-> ErrSyntax]
      ELSE [n |-> IF s[1] = "-" THEN 0 - DigitsValue(d) ELSE DigitsValue(d),
            err |-> Nil])

\* slog.Level.UnmarshalText: the text up to the first sign is a level name
\* in any case, the rest (sign included) an offset that strconv.Atoi reads.
UnmarshalText(s) ==
  With(IndexAny(s, {"+", "-"}), LAMBDA i :
    With(IF i > 0 THEN Atoi(SubSeq(s, i, Len(s))) ELSE [n |-> 0, err |-> Nil], LAMBDA off :
      With(ToUpper(IF i > 0 THEN SubSeq(s, 1, i - 1) ELSE s), LAMBDA name :
        IF off.err # Nil THEN [level |-> 0, err |-> off.err]
        ELSE IF name = Chars("DEBUG") THEN [level |-> LevelDebug + off.n, err |-> Nil]
        ELSE IF name = Chars("INFO") THEN [level |-> LevelInfo + off.n, err |-> Nil]
        ELSE IF name = Chars("WARN") THEN [level |-> LevelWarn + off.n, err |-> Nil]
        ELSE IF name = Chars("ERROR") THEN [level |-> LevelError + off.n, err |-> Nil]
        ELSE [level |-> 0, err |-> ErrUnknownName])))

\* Mutant of parseLevel: a level that cannot be parsed gives the zero Level
\* with the name DEBUG instead of the Info default.
parseLevelDebugDefault(logLevel) ==
  With(UnmarshalText(Chars(logLevel)), LAMBDA r :
    IF r.err # Nil THEN LevelDebug ELSE r.level)

\* logging.parseLevel: the slog level of a configured level, Info when it
\* cannot be parsed.
parseLevel(logLevel) ==
  With(UnmarshalText(Chars(logLevel)), LAMBDA r :
    IF r.err # Nil THEN LevelInfo ELSE r.level)

\* logging.parseOutput: the writer of a configuration. Standard output and
\* standard error get a Close that does nothing; a file is opened (openErr is
\* what os.OpenFile returns); any other output is standard output.
parseOutput(cfg, openErr) ==
  IF cfg.output = "stderr" THEN [closer |-> "nop", dest |-> "stderr", err |-> Nil]
  ELSE IF cfg.output = "file"
    THEN IF cfg.path = "" THEN [closer |-> "nil", dest |-> "none", err |-> ErrEmptyPath]
         ELSE IF openErr # Nil THEN [closer |-> "nil", dest |-> "none", err |-> ErrOpenFile]
         ELSE [closer |-> "file", dest |-> cfg.path, err |-> Nil]
  ELSE [closer |-> "nop", dest |-> "stdout", err |-> Nil]

\* logging.parseFormat: a JSON handler for "json", a text handler for any
\* other format, with the level of parseLevel as its threshold.
parseFormat(cfg) ==
  [format |-> IF cfg.format = "json" THEN "json" ELSE "text",
   level |-> parseLevel(cfg.level)]

\* No event.
NoEvent == [level |-> 0, msg |-> "", args |-> <<>>, written |-> FALSE]

\* The state of a Logger: whether it exists (st), its closer (nil, the
\* do-nothing closer of a standard stream, or a file) and whether that file
\* is closed, its exit function (nil, os.Exit, or a function a test set), the
\* handler's format and threshold, the number of Close calls and what the last
\* returned, the last event handed to it, whether an event was handed to it
\* after a Close call, where a Fatal call is, and the
\* codes the exit function was called with. newErr is what logging.New
\* returned when it made no Logger; valid is what LoggingConfig.Validate
\* returned.
NoLogger == [st |-> "none", closer |-> "nil", dest |-> "none", fileClosed |-> FALSE,
             exitFunc |-> "nil", format |-> "none", level |-> 0,
             closes |-> 0, closeRes |-> "none",
             last |-> NoEvent, late |-> FALSE,
             pc |-> "idle", exits |-> <<>>, newErr |-> Nil, valid |-> "none"]

\* logging.New: the output, then the handler; the Logger exits with os.Exit.
LoggingNew(cfg, openErr) ==
  With(parseOutput(cfg, openErr), LAMBDA output :
    IF output.err # Nil
      THEN [NoLogger EXCEPT !.newErr = <<"could not parse log output", ": ", output.err>>]
      ELSE [NoLogger EXCEPT !.st = "open", !.closer = output.closer, !.dest = output.dest,
                            !.exitFunc = "os.Exit",
                            !.format = parseFormat(cfg).format,
                            !.level = parseFormat(cfg).level])

\* Logger.Debug, Info, Warn and Error: slogger.Log at the level. The handler
\* writes the event when the level reaches its threshold; a write to a closed
\* file fails and the event is lost.
Emit(l, level, msg, args) ==
  [l EXCEPT !.last = [level |-> level, msg |-> msg, args |-> args,
                written |-> level >= l.level /\ ~l.fileClosed],
            !.late = l.late \/ l.closes > 0]

\* The number of Close calls the model follows.
MaxCloses == 3

\* Mutant of Close: a file that is already closed is not closed again.
CloseGuarded(l) ==
  [l EXCEPT !.closes = l.closes + 1, !.closeRes = Nil,
            !.fileClosed = l.fileClosed \/ l.closer = "file"]

\* Logger.Close: closer.Close() when there is a closer, nil when there is
\* none. nopWriteCloser.Close returns nil; os.File.Close returns nil the
\* first time and an error once the file is closed.
Close(l) ==
  [l EXCEPT !.closes = l.closes + 1,
            !.closeRes = IF l.closer = "file" /\ l.fileClosed THEN ErrFileClosed ELSE Nil,
            !.fileClosed = l.fileClosed \/ l.closer = "file"]

\* ------------------------------------------------------------------ state

VARIABLES
  cfgHost,      \* cfg.Host
  cfgPort,      \* cfg.Port
  cfgTarget,    \* cfg.Target
  cfgProxy,     \* cfg.Proxy
  cfgLogging,   \* cfg.Logging
  srvAddr,      \* http.Server.Addr, set by New
  inShutdown,   \* http.Server.inShutdown
  runPc,        \* per Run call: where it is in ListenAndServe / Serve
  runRes,       \* per Run call: its return value
  ln,           \* per Run call: the listener net.Listen gave it
  sdPc,         \* per Shutdown call: where it is in Shutdown
  sdRes,        \* per Shutdown call: its return value
  sdCtxDone,    \* per Shutdown call: whether its context's deadline has elapsed
  lnerr,        \* per Shutdown call: the result of closeListenersLocked
  conn,         \* per client connection: state and the responses written to it
  mainPc,       \* main.go Action: position of the main flow
  gPc,          \* main.go Action: position of the goroutine
  errChan,      \* main.go: errChan (buffered, capacity 1)
  signalled,    \* main.go: signalCtx is done
  exited,       \* the process has exited
  exitCode,     \* its exit code
  fatalErr,     \* the error log.Fatal printed before the exit, if any
  logAddr,      \* the address logged by "Server starting to listen..."
  clock,        \* main.go: seconds since shutdownCtx was created
  valRes,       \* results of the ValidateURL calls on cfg.Target and cfg.Proxy
  engine,       \* what prxy.New returned: the handler and transport, or an error
  req,          \* the request the handler is forwarding: inbound and outbound
  logger        \* the Logger of internal/logging and the events handed to it

cfgVars == <<cfgHost, cfgPort, cfgTarget, cfgProxy, cfgLogging, srvAddr>>
fwdVars == <<valRes, engine, req>>
srvVars == <<inShutdown, runPc, runRes, ln, sdPc, sdRes, sdCtxDone, lnerr>>
mainVars == <<mainPc, gPc, errChan, signalled, exited, exitCode, fatalErr, logAddr, clock>>
vars == <<cfgHost, cfgPort, cfgTarget, cfgProxy, cfgLogging, srvAddr, inShutdown,
          runPc, runRes, ln, sdPc, sdRes, sdCtxDone, lnerr, conn, mainPc, gPc,
          errChan, signalled, exited, exitCode, fatalErr, logAddr, clock, valRes, engine, req,
          logger>>

\* The client connections of a run: those the initial state provides.
Conns == DOMAIN conn

\* req.URL.String() at the ErrorHandler: the URL the Director made of the
\* target and the request's path (the clients of the server request the root
\* path).
RequestURL == cfgTarget \o <<"/">>

\* A listener that net.Listen has not created yet.
NoListener == [st |-> "none", port |-> 0, tracked |-> FALSE, once |-> FALSE,
               closes |-> 0, closeErr |-> "nil"]

\* A connection no client has opened yet.
NoConn == [st |-> "none", err |-> "nil", last |-> [status |-> 0, body |-> <<>>]]

\* prxy.New: httpServer.Addr = net.JoinHostPort(cfg.Host, strconv.Itoa(cfg.Port)).
NewAddr(host, port) == JoinHostPort(host, Itoa(port))

\* Prxy.Addr: returns s.server.Addr.
Addr == srvAddr

\* The errors of prxy.New.
ErrNewTarget == "invalid target URL"
ErrNewProxy == "invalid proxy URL"

\* No Prxy yet: prxy.New has not been called.
NoEngine == [st |-> "none", err |-> Nil, target |-> EmptyURL, proxy |-> EmptyURL]

\* Mutant of New: a New that validates the URLs as validateConfig does.
NewValidating(target, proxy) ==
  IF ValidateURL(target) # Nil
    THEN [NoEngine EXCEPT !.st = "failed", !.err = ErrNewTarget]
  ELSE IF ValidateURL(proxy) # Nil
    THEN [NoEngine EXCEPT !.st = "failed", !.err = ErrNewProxy]
  ELSE [st |-> "built", err |-> Nil, target |-> Parse(target), proxy |-> Parse(proxy)]

\* prxy.New, the URLs: both are parsed with url.Parse; an error of either
\* makes New return it (and no Prxy); otherwise the reverse-proxy handler is
\* built for the parsed target, with a transport whose Proxy function is
\* http.ProxyURL(parsedProxyURL).
New(target, proxy) ==
  With(Parse(target), LAMBDA parsedTargetURL :
  With(Parse(proxy), LAMBDA parsedProxyURL :
    IF parsedTargetURL.err # Nil
      THEN [NoEngine EXCEPT !.st = "failed", !.err = ErrNewTarget]
    ELSE IF parsedProxyURL.err # Nil
      THEN [NoEngine EXCEPT !.st = "failed", !.err = ErrNewProxy]
    ELSE [st |-> "built", err |-> Nil,
          target |-> parsedTargetURL, proxy |-> parsedProxyURL]))

\* The http.Request the handler works on: URL, Host and headers.
NoHTTPRequest == [method |-> "", url |-> EmptyURL, host |-> <<>>, header |-> {},
                  remoteAddr |-> <<>>]

\* The connection the transport makes for a request: none yet.
NoDial == [err |-> Nil, via |-> "none", addr |-> <<>>, how |-> "none", tunnel |-> <<>>]

\* A request no handler is working on.
NoRequest == [pc |-> "idle", in |-> NoHTTPRequest, out |-> NoHTTPRequest, dial |-> NoDial]

\* The state after prxy.New succeeded on a validated configuration, with n
\* connections for the clients to open.
InitWith(n) ==
  /\ \E cfg \in Configs :
       /\ cfgHost = cfg.host
       /\ cfgPort = cfg.port
       /\ cfgTarget = cfg.target
       /\ cfgProxy = cfg.proxy
       /\ cfgLogging = cfg.logging
  /\ valRes = [target |-> ValidateURL(cfgTarget), proxy |-> ValidateURL(cfgProxy)]
  /\ engine = New(cfgTarget, cfgProxy)
  /\ req = NoRequest
  /\ clock = 0
  /\ srvAddr = NewAddr(cfgHost, cfgPort)
  /\ inShutdown = FALSE
  /\ runPc = [r \in RunCalls |-> "idle"]
  /\ runRes = [r \in RunCalls |-> "none"]
  /\ ln = [r \in RunCalls |-> NoListener]
  /\ sdPc = [s \in ShutdownCalls |-> "idle"]
  /\ sdRes = [s \in ShutdownCalls |-> "none"]
  /\ sdCtxDone = [s \in ShutdownCalls |-> FALSE]
  /\ lnerr = [s \in ShutdownCalls |-> Nil]
  /\ conn = [c \in 1..n |-> NoConn]
  /\ mainPc = "spawn"
  /\ gPc = "none"
  /\ errChan = <<>>
  /\ signalled = FALSE
  /\ exited = FALSE
  /\ exitCode = 0
  /\ fatalErr = <<>>
  /\ logAddr = <<>>
  /\ logger = Emit(Emit(LoggingNew(cfgLogging, Nil),
                        LevelDebug, "Configuration loaded successfully", <<"config">>),
                   LevelInfo, "Starting prxy...", <<"version">>)

Init == InitWith(MaxConns)

\* The same, with one connection more: requests can be in flight on
\* different connections at MaxConns = 1 too.
InitConcurrent == InitWith(MaxConns + 1)

\* ------------------------------------------------- Run (ListenAndServe)

\* The ports held by the listeners of this process.
PortsInUse == { ln[r].port : r \in { q \in RunCalls : ln[q].st = "open" } }

\* The ports net.Listen may bind for this configuration: the configured port,
\* or for port 0 any ephemeral port, when no listener of this process holds it.
FreePorts == (IF cfgPort = 0 THEN EphemeralPorts ELSE {cfgPort}) \ PortsInUse

\* What closing the underlying listener returns. A TCP listener that is closed
\* once (see OnceClose) is taken to close without error.
CloseResults == { Nil }

\* Mutant of OnceClose: no sync.Once, every call closes the underlying listener.
CloseEveryTime(l, e) ==
  [l EXCEPT !.once = TRUE, !.st = "closed", !.closes = @ + 1, !.closeErr = e]

\* onceCloseListener.Close: the underlying listener is closed once (sync.Once)
\* and the result e of that close is kept as closeErr for every later call.
OnceClose(l, e) ==
  IF l.once THEN l
  ELSE [l EXCEPT !.once = TRUE, !.st = "closed", !.closes = @ + 1, !.closeErr = e]

\* Mutant of LnsCheck: ListenAndServe goes on to net.Listen without testing
\* s.shuttingDown().
LnsCheckSkipped(r) ==
  /\ ~exited
  /\ runPc[r] = "check"
  /\ runPc' = [runPc EXCEPT ![r] = "listen"]
  /\ UNCHANGED <<cfgVars, fwdVars, inShutdown, runRes, ln, sdPc, sdRes, sdCtxDone, lnerr, conn, mainVars>>
  /\ UNCHANGED logger

\* ListenAndServe, first statement: if s.shuttingDown() { return ErrServerClosed }.
LnsCheck(r) ==
  /\ ~exited
  /\ runPc[r] = "check"
  /\ IF inShutdown
       THEN /\ runPc' = [runPc EXCEPT ![r] = "returned"]
            /\ runRes' = [runRes EXCEPT ![r] = ErrServerClosed]
       ELSE /\ runPc' = [runPc EXCEPT ![r] = "listen"]
            /\ UNCHANGED runRes
  /\ UNCHANGED <<cfgVars, fwdVars, inShutdown, ln, sdPc, sdRes, sdCtxDone, lnerr, conn, mainVars>>
  /\ UNCHANGED logger

\* ListenAndServe: net.Listen("tcp", addr) binds the socket.
Listen(r) ==
  /\ ~exited
  /\ runPc[r] = "listen"
  /\ \E p \in FreePorts :
       ln' = [ln EXCEPT ![r] = [NoListener EXCEPT !.st = "open", !.port = p]]
  /\ runPc' = [runPc EXCEPT ![r] = "track"]
  /\ UNCHANGED <<cfgVars, fwdVars, inShutdown, runRes, sdPc, sdRes, sdCtxDone, lnerr, conn, mainVars>>
  /\ UNCHANGED logger

\* ListenAndServe: net.Listen fails (address in use, permission denied) and
\* the error is returned.
ListenFail(r) ==
  /\ ~exited
  /\ runPc[r] = "listen"
  /\ runPc' = [runPc EXCEPT ![r] = "returned"]
  /\ runRes' = [runRes EXCEPT ![r] = ErrListen]
  /\ UNCHANGED <<cfgVars, fwdVars, inShutdown, ln, sdPc, sdRes, sdCtxDone, lnerr, conn, mainVars>>
  /\ UNCHANGED logger

\* Serve: trackListener(&l, true) under the server's mutex. While shutting
\* down it refuses, Serve returns ErrServerClosed and the deferred l.Close()
\* closes the listener.
Track(r) ==
  /\ ~exited
  /\ runPc[r] = "track"
  /\ IF inShutdown
       THEN /\ \E e \in CloseResults : ln' = [ln EXCEPT ![r] = OnceClose(ln[r], e)]
            /\ runPc' = [runPc EXCEPT ![r] = "returned"]
            /\ runRes' = [runRes EXCEPT ![r] = ErrServerClosed]
       ELSE /\ ln' = [ln EXCEPT ![r].tracked = TRUE]
            /\ runPc' = [runPc EXCEPT ![r] = "accept"]
            /\ UNCHANGED runRes
  /\ UNCHANGED <<cfgVars, fwdVars, inShutdown, sdPc, sdRes, sdCtxDone, lnerr, conn, mainVars>>
  /\ UNCHANGED logger

\* Serve's loop: l.Accept() returns a connection; it is registered in
\* activeConn in StateNew and served by its own goroutine. The loop does not
\* test shuttingDown() on this path.
Accept(r, c) ==
  /\ ~exited
  /\ runPc[r] = "accept"
  /\ ln[r].st = "open"
  /\ conn[c].st = "none"
  /\ conn' = [conn EXCEPT ![c].st = "new"]
  /\ UNCHANGED <<cfgVars, fwdVars, srvVars, mainVars>>
  /\ UNCHANGED logger

\* Mutant of AcceptErrorResult: Serve forgets to test s.shuttingDown() and
\* returns the listener's own error.
AcceptErrorResultRaw == ErrAccept

\* What Serve returns when l.Accept() fails for good: ErrServerClosed when
\* s.shuttingDown(), the listener's error otherwise.
AcceptErrorResult == IF inShutdown THEN ErrServerClosed ELSE ErrAccept

\* Mutant of ServeReturn: the error of a closed listener is taken for a
\* temporary one and Accept is retried for ever; only a failure of the
\* listener itself ends the loop.
ServeReturnRetry(r, failed) ==
  /\ ~exited
  /\ runPc[r] = "accept"
  /\ failed
  /\ ln[r].st = "open"
  /\ runPc' = [runPc EXCEPT ![r] = "returned"]
  /\ runRes' = [runRes EXCEPT ![r] = AcceptErrorResult]
  /\ ln' = [ln EXCEPT ![r] = [OnceClose(ln[r], Nil) EXCEPT !.tracked = FALSE]]
  /\ UNCHANGED <<cfgVars, fwdVars, inShutdown, sdPc, sdRes, sdCtxDone, lnerr, conn, mainVars>>
  /\ UNCHANGED logger

\* Serve's loop: l.Accept() fails, because Shutdown closed the listener
\* (failed = FALSE) or with an unrecoverable error of the listener itself;
\* Serve returns, and its deferred calls untrack and close the listener.
ServeReturn(r, failed) ==
  /\ ~exited
  /\ runPc[r] = "accept"
  /\ ln[r].st = "closed" \/ failed
  /\ runPc' = [runPc EXCEPT ![r] = "returned"]
  /\ runRes' = [runRes EXCEPT ![r] = AcceptErrorResult]
  /\ \E e \in CloseResults :
       ln' = [ln EXCEPT ![r] = [OnceClose(ln[r], e) EXCEPT !.tracked = FALSE]]
  /\ UNCHANGED <<cfgVars, fwdVars, inShutdown, sdPc, sdRes, sdCtxDone, lnerr, conn, mainVars>>
  /\ UNCHANGED logger

\* ------------------------------------------------------------ connections

\* The connections registered in http.Server.activeConn.
Tracked(cs) == { c \in Conns : cs[c].st \in {"new", "newOld", "active", "failed", "idle"} }

\* A connection has sat in StateNew for more than five seconds without a
\* request (closeIdleConns then treats it as idle).
GrowOld(c) ==
  /\ ~exited
  /\ conn[c].st = "new"
  /\ conn' = [conn EXCEPT ![c].st = "newOld"]
  /\ UNCHANGED <<cfgVars, fwdVars, srvVars, mainVars>>
  /\ UNCHANGED logger

\* conn.serve: the first bytes of a request are read (StateActive) and the
\* request is handed to the reverse-proxy handler; it has no response yet.
ReadRequest(c) ==
  /\ ~exited
  /\ conn[c].st \in {"new", "newOld", "idle"}
  /\ conn' = [conn EXCEPT ![c].st = "active", ![c].last = NoConn.last]
  /\ UNCHANGED <<cfgVars, fwdVars, srvVars, mainVars>>
  /\ UNCHANGED logger

\* conn.serve after a response is written: the connection goes idle, unless
\* keep-alives are off because the server is shutting down (doKeepAlives),
\* in which case it is closed.
AfterResponse == IF inShutdown THEN "closed" ELSE "idle"

\* Mutant of RoundTripOK: the outbound legs share one lock, so a round trip
\* completes only when no other request is in its outbound leg or failing.
RoundTripOKSerial(c) ==
  /\ ~exited
  /\ conn[c].st = "active"
  /\ \A d \in Conns \ {c} : conn[d].st \notin {"active", "failed"}
  /\ \E st \in UpstreamStatuses :
       conn' = [conn EXCEPT ![c].st = AfterResponse,
                            ![c].last = [status |-> st, body |-> <<"upstream">>]]
  /\ UNCHANGED <<cfgVars, fwdVars, srvVars, mainVars>>
  /\ UNCHANGED logger

\* The outbound round trip succeeds and the target's response is streamed back.
RoundTripOK(c) ==
  /\ ~exited
  /\ conn[c].st = "active"
  /\ \E st \in UpstreamStatuses :
       conn' = [conn EXCEPT ![c].st = AfterResponse,
                            ![c].last = [status |-> st, body |-> <<"upstream">>]]
  /\ UNCHANGED <<cfgVars, fwdVars, srvVars, mainVars>>
  /\ UNCHANGED logger

\* The transport errors of the outbound leg.
TransportErrors == { "proxyconnect tcp: connection refused" }

\* Mutant of RoundTripErr: the failed round trip drops the client connection
\* without a response.
RoundTripErrDrop(c) ==
  /\ ~exited
  /\ conn[c].st = "active"
  /\ conn' = [conn EXCEPT ![c].st = "closed"]
  /\ UNCHANGED <<cfgVars, fwdVars, srvVars, mainVars>>
  /\ UNCHANGED logger

\* The outbound leg fails (proxy unreachable, connection refused, timeout):
\* Transport.RoundTrip returns an error to ReverseProxy.ServeHTTP.
RoundTripErr(c) ==
  /\ ~exited
  /\ conn[c].st = "active"
  /\ \E err \in TransportErrors :
       conn' = [conn EXCEPT ![c].st = "failed", ![c].err = err]
  /\ UNCHANGED <<cfgVars, fwdVars, srvVars, mainVars>>
  /\ UNCHANGED logger

\* Mutant of ErrorResponse: the body is the bare error text.
ErrorResponseBare(err) == [status |-> StatusBadGateway, body |-> <<err, "\n">>]

\* The response the ErrorHandler of New writes:
\* http.Error(rw, "Proxy Error: "+err.Error(), http.StatusBadGateway).
ErrorResponse(err) == [status |-> StatusBadGateway, body |-> ProxyErrorBody(err)]

\* Mutant of ErrorHandler: the 502 response is written and nothing is logged.
ErrorHandlerQuiet(c) ==
  /\ ~exited
  /\ conn[c].st = "failed"
  /\ conn' = [conn EXCEPT ![c].st = AfterResponse, ![c].err = Nil,
                          ![c].last = ErrorResponse(conn[c].err)]
  /\ UNCHANGED <<cfgVars, fwdVars, srvVars, mainVars>>
  /\ UNCHANGED logger

\* ReverseProxy calls the ErrorHandler set by New: logger.Error("Reverse proxy
\* error", ...), then the 502 response; the handler returns and the
\* connection is kept as after any response.
ErrorHandler(c) ==
  /\ ~exited
  /\ conn[c].st = "failed"
  /\ conn' = [conn EXCEPT ![c].st = AfterResponse, ![c].err = Nil,
                          ![c].last = ErrorResponse(conn[c].err)]
  /\ logger' = Emit(logger, LevelError, "Reverse proxy error",
                    <<"url", RequestURL, "error", conn[c].err>>)
  /\ UNCHANGED <<cfgVars, fwdVars, srvVars, mainVars>>

\* --------------------------------------------------------------- Shutdown

\* Prxy.Shutdown: logger.Debug("Shutting down HTTP server..."), then
\* http.Server.Shutdown, whose first statement is inShutdown.Store(true).
ShutdownBegin(s) ==
  /\ ~exited
  /\ sdPc[s] = "idle"
  /\ sdPc' = [sdPc EXCEPT ![s] = "closeListeners"]
  /\ inShutdown' = TRUE
  /\ logger' = Emit(logger, LevelDebug, "Shutting down HTTP server...", <<>>)
  /\ UNCHANGED <<cfgVars, fwdVars, runPc, runRes, ln, sdRes, sdCtxDone, lnerr, conn>>

\* Mutant of CloseListeners: the tracked listeners are left open.
CloseListenersSkipped(s) ==
  /\ ~exited
  /\ sdPc[s] = "closeListeners"
  /\ sdPc' = [sdPc EXCEPT ![s] = "wait"]
  /\ UNCHANGED <<cfgVars, fwdVars, inShutdown, runPc, runRes, ln, sdRes, sdCtxDone, lnerr, conn, mainVars>>
  /\ UNCHANGED logger

\* closeListenersLocked: closes every tracked listener and returns the first
\* close error (results[r] is what closing listener r returns, if it is the
\* call that closes it).
CloseListeners(s) ==
  /\ ~exited
  /\ sdPc[s] = "closeListeners"
  /\ \E results \in [RunCalls -> CloseResults] :
       /\ ln' = [r \in RunCalls |->
                   IF ln[r].tracked THEN OnceClose(ln[r], results[r]) ELSE ln[r]]
       /\ lnerr' = [lnerr EXCEPT ![s] =
                   IF \E r \in RunCalls : ln[r].tracked /\ ln'[r].closeErr # Nil
                     THEN ErrCloseListener ELSE Nil]
  /\ sdPc' = [sdPc EXCEPT ![s] = "wait"]
  /\ UNCHANGED <<cfgVars, fwdVars, inShutdown, runPc, runRes, sdRes, sdCtxDone, conn, mainVars>>
  /\ UNCHANGED logger

\* s.listenerGroup.Wait(): blocks until every tracked Serve has returned.
ListenerGroupWait(s) ==
  /\ ~exited
  /\ sdPc[s] = "wait"
  /\ \A r \in RunCalls : ~ln[r].tracked
  /\ sdPc' = [sdPc EXCEPT ![s] = "first"]
  /\ UNCHANGED <<cfgVars, fwdVars, inShutdown, runPc, runRes, ln, sdRes, sdCtxDone, lnerr, conn, mainVars>>
  /\ UNCHANGED logger

\* closeIdleConns: closes the connections in StateIdle (and those in StateNew
\* for more than five seconds) and removes them from activeConn.
CloseIdle(cs) ==
  [c \in Conns |-> IF cs[c].st \in {"idle", "newOld"}
                     THEN [cs[c] EXCEPT !.st = "closed"] ELSE cs[c]]

\* Mutant of Quiescent: any registered connection, idle or not, counts as busy.
QuiescentStrict(cs) == Tracked(cs) = {}

\* closeIdleConns' result: whether no connection was left in activeConn.
Quiescent(cs) == Tracked(CloseIdle(cs)) = {}

\* Shutdown's loop: if s.closeIdleConns() { return lnerr }, else wait for the
\* poll timer or for ctx.Done().
CloseIdleConns(s) ==
  /\ ~exited
  /\ sdPc[s] \in {"first", "again"}
  /\ conn' = CloseIdle(conn)
  /\ IF Quiescent(conn)
       THEN /\ sdPc' = [sdPc EXCEPT ![s] = "returned"]
            /\ sdRes' = [sdRes EXCEPT ![s] = lnerr[s]]
       ELSE /\ sdPc' = [sdPc EXCEPT ![s] = "poll"]
            /\ UNCHANGED sdRes
  /\ UNCHANGED <<cfgVars, fwdVars, inShutdown, runPc, runRes, ln, sdCtxDone, lnerr, mainVars>>
  /\ UNCHANGED logger

\* Shutdown's select: case <-timer.C, back to closeIdleConns.
PollTick(s) ==
  /\ ~exited
  /\ sdPc[s] = "poll"
  /\ sdPc' = [sdPc EXCEPT ![s] = "again"]
  /\ UNCHANGED <<cfgVars, fwdVars, inShutdown, runPc, runRes, ln, sdRes, sdCtxDone, lnerr, conn, mainVars>>
  /\ UNCHANGED logger

\* context.WithTimeout(context.Background(), 5*time.Second) of main.go.
ShutdownTimeoutSeconds == 5

\* Mutant of DeadlineReached: a context that can be done at any time.
DeadlineAnyTime(s) == TRUE

\* Whether the deadline of the context given to Shutdown call s can have
\* passed: main's shutdownCtx is done 5 seconds after it was made; another
\* caller's context has the deadline that caller chose.
DeadlineReached(s) ==
  mainPc = "inShutdown" /\ s = 1 => clock = ShutdownTimeoutSeconds

\* The deadline of the context given to Shutdown elapses while it waits.
DeadlineElapse(s) ==
  /\ ~exited
  /\ sdPc[s] = "poll"
  /\ ~sdCtxDone[s]
  /\ DeadlineReached(s)
  /\ sdCtxDone' = [sdCtxDone EXCEPT ![s] = TRUE]
  /\ UNCHANGED <<cfgVars, fwdVars, inShutdown, runPc, runRes, ln, sdPc, sdRes, lnerr, conn, mainVars>>
  /\ UNCHANGED logger

\* Mutant of ShutdownTimeout: on the deadline every registered connection is
\* closed (as http.Server.Close would) before ctx.Err() is returned.
ShutdownTimeoutClosing(s) ==
  /\ ~exited
  /\ sdPc[s] = "poll"
  /\ sdCtxDone[s]
  /\ sdPc' = [sdPc EXCEPT ![s] = "returned"]
  /\ sdRes' = [sdRes EXCEPT ![s] = DeadlineExceeded]
  /\ conn' = [c \in Conns |-> IF c \in Tracked(conn)
                                 THEN [conn[c] EXCEPT !.st = "closed"] ELSE conn[c]]
  /\ UNCHANGED <<cfgVars, fwdVars, inShutdown, runPc, runRes, ln, sdCtxDone, lnerr, mainVars>>
  /\ UNCHANGED logger

\* Mutant of ShutdownTimeout: a Shutdown that does not return on ctx.Done()
\* and goes on polling.
ShutdownTimeoutIgnored(s) ==
  /\ ~exited
  /\ sdPc[s] = "poll"
  /\ sdCtxDone[s]
  /\ sdPc' = [sdPc EXCEPT ![s] = "again"]
  /\ UNCHANGED <<cfgVars, fwdVars, inShutdown, runPc, runRes, ln, sdRes, sdCtxDone, lnerr, conn, mainVars>>
  /\ UNCHANGED logger

\* Shutdown's select: case <-ctx.Done(): return ctx.Err(). The connections
\* are left as they are.
ShutdownTimeout(s) ==
  /\ ~exited
  /\ sdPc[s] = "poll"
  /\ sdCtxDone[s]
  /\ sdPc' = [sdPc EXCEPT ![s] = "returned"]
  /\ sdRes' = [sdRes EXCEPT ![s] = DeadlineExceeded]
  /\ UNCHANGED <<cfgVars, fwdVars, inShutdown, runPc, runRes, ln, sdCtxDone, lnerr, conn, mainVars>>
  /\ UNCHANGED logger

\* ------------------------------------------------------- main.go (Action)

\* os.Exit: the process ends with the code (log.Fatal exits with 1 after
\* cmd.Run returned an error; main returning ends it with 0).
Exit(code) ==
  /\ exited' = TRUE
  /\ exitCode' = code
  /\ mainPc' = "exited"
  /\ UNCHANGED fatalErr

\* The Action returns fmt.Errorf(msg+": %v", err): cmd.Run returns it and
\* log.Fatal(err) prints it and exits with code 1.
Fatal(msg, err) ==
  /\ exited' = TRUE
  /\ exitCode' = 1
  /\ mainPc' = "exited"
  /\ fatalErr' = <<msg, ": ", err>>

\* go func() { ... }(): the goroutine that runs the server is started.
MainSpawn ==
  /\ ~exited
  /\ mainPc = "spawn"
  /\ mainPc' = "select"
  /\ gPc' = "log"
  /\ UNCHANGED <<cfgVars, fwdVars, srvVars, conn, clock, errChan, signalled, exited, exitCode, fatalErr, logAddr>>
  /\ UNCHANGED logger

\* The goroutine: logger.Info("Server starting to listen...", "address",
\* prxyServer.Addr(), ...).
GoLog ==
  /\ ~exited
  /\ gPc = "log"
  /\ gPc' = "run"
  /\ logAddr' = Addr
  /\ logger' = Emit(logger, LevelInfo, "Server starting to listen...",
                    <<"address", Addr, "target", cfgTarget, "proxy", cfgProxy>>)
  /\ UNCHANGED <<cfgVars, fwdVars, srvVars, conn, clock, mainPc, errChan, signalled, exited, exitCode, fatalErr>>

\* The goroutine calls prxyServer.Run(), which calls s.server.ListenAndServe().
GoRun ==
  /\ ~exited
  /\ gPc = "run"
  /\ runPc[1] = "idle"
  /\ gPc' = "serving"
  /\ runPc' = [runPc EXCEPT ![1] = "check"]
  /\ UNCHANGED <<cfgVars, fwdVars, inShutdown, runRes, ln, sdPc, sdRes, sdCtxDone, lnerr, conn,
                 mainPc, errChan, signalled, exited, exitCode, fatalErr, logAddr, clock>>
  /\ UNCHANGED logger

\* Mutant of GoSend: errChan has no buffer, so the send completes only while
\* the main flow is at its select, ready to receive.
GoSendUnbuffered ==
  /\ ~exited
  /\ gPc = "serving"
  /\ runPc[1] = "returned"
  /\ mainPc = "select"
  /\ Len(errChan) < 1
  /\ errChan' = Append(errChan, runRes[1])
  /\ gPc' = "done"
  /\ UNCHANGED <<cfgVars, fwdVars, srvVars, conn, clock, mainPc, signalled, exited, exitCode, fatalErr, logAddr>>
  /\ UNCHANGED logger

\* The goroutine: errChan <- (the value Run returned). The channel has
\* capacity 1 and this is its only send.
GoSend ==
  /\ ~exited
  /\ gPc = "serving"
  /\ runPc[1] = "returned"
  /\ Len(errChan) < 1
  /\ errChan' = Append(errChan, runRes[1])
  /\ gPc' = "done"
  /\ UNCHANGED <<cfgVars, fwdVars, srvVars, conn, clock, mainPc, signalled, exited, exitCode, fatalErr, logAddr>>
  /\ UNCHANGED logger

\* SIGINT or SIGTERM arrives while signal.NotifyContext is registered:
\* signalCtx is done.
Signal ==
  /\ ~exited
  /\ ~signalled
  /\ mainPc \in {"spawn", "select"}
  /\ signalled' = TRUE
  /\ UNCHANGED <<cfgVars, fwdVars, srvVars, conn, clock, mainPc, gPc, errChan, exited, exitCode, fatalErr, logAddr>>
  /\ UNCHANGED logger

\* select, case err := <-errChan: a non-nil error is returned (exit 1);
\* nil would log "Server stopped gracefully." and go on to close the logger.
MainRecvErr ==
  /\ ~exited
  /\ mainPc = "select"
  /\ errChan # <<>>
  /\ errChan' = Tail(errChan)
  /\ IF Head(errChan) # Nil
       THEN /\ Fatal("server stopped with an error", Head(errChan))
            /\ UNCHANGED logger
       ELSE /\ mainPc' = "close"
            /\ logger' = Emit(logger, LevelInfo, "Server stopped gracefully.", <<>>)
            /\ UNCHANGED <<exited, exitCode, fatalErr>>
  /\ UNCHANGED <<cfgVars, fwdVars, srvVars, conn, clock, gPc, signalled, logAddr>>

\* select, case <-signalCtx.Done(): stop(), logger.Info("Shutdown signal
\* received..."), context.WithTimeout(context.Background(), 5*time.Second).
MainRecvSignal ==
  /\ ~exited
  /\ mainPc = "select"
  /\ signalled
  /\ mainPc' = "shutdown"
  /\ logger' = Emit(logger, LevelInfo,
                    "Shutdown signal received. Shutting down gracefully...", <<>>)
  /\ UNCHANGED <<cfgVars, fwdVars, srvVars, conn, clock, gPc, errChan, signalled, exited, exitCode, fatalErr, logAddr>>

\* A second passes after shutdownCtx was made, up to its deadline.
Tick ==
  /\ ~exited
  /\ mainPc \in {"shutdown", "inShutdown"}
  /\ clock < ShutdownTimeoutSeconds
  /\ clock' = clock + 1
  /\ UNCHANGED <<cfgVars, fwdVars, srvVars, conn, mainPc, gPc, errChan, signalled,
                 exited, exitCode, fatalErr, logAddr>>
  /\ UNCHANGED logger

\* prxyServer.Shutdown(shutdownCtx) is called (Shutdown call 1).
MainShutdown ==
  /\ mainPc = "shutdown"
  /\ ShutdownBegin(1)
  /\ mainPc' = "inShutdown"
  /\ UNCHANGED <<gPc, errChan, signalled, exited, exitCode, fatalErr, logAddr, clock>>

\* Shutdown returned: an error is returned (exit 1); nil logs "All done!..."
\* and goes on to close the logger.
MainShutdownReturn ==
  /\ ~exited
  /\ mainPc = "inShutdown"
  /\ sdPc[1] = "returned"
  /\ IF sdRes[1] # Nil
       THEN /\ Fatal("error during graceful shutdown", sdRes[1])
            /\ UNCHANGED logger
       ELSE /\ mainPc' = "close"
            /\ logger' = Emit(logger, LevelInfo, "All done! prxy has been shut down.", <<>>)
            /\ UNCHANGED <<exited, exitCode, fatalErr>>
  /\ UNCHANGED <<cfgVars, fwdVars, srvVars, conn, clock, gPc, errChan, signalled, logAddr>>

\* logger.Close(): an error makes the Action return "failed to close log
\* file (...): ..."; otherwise it goes on to return nil.
MainClose ==
  /\ ~exited
  /\ mainPc = "close"
  /\ logger' = Close(logger)
  /\ IF logger'.closeRes # Nil
       THEN Fatal("failed to close log file", logger'.closeRes)
       ELSE /\ mainPc' = "return"
            /\ UNCHANGED <<exited, exitCode, fatalErr>>
  /\ UNCHANGED <<cfgVars, fwdVars, srvVars, conn, clock, gPc, errChan, signalled, logAddr>>

\* return nil: cmd.Run returns nil, main returns and the process exits with
\* code 0.
MainReturn ==
  /\ ~exited
  /\ mainPc = "return"
  /\ Exit(0)
  /\ UNCHANGED <<cfgVars, fwdVars, srvVars, conn, clock, gPc, errChan, signalled, logAddr>>
  /\ UNCHANGED logger

\* ------------------------------------------------------------ API callers

\* Some caller invokes Prxy.Run; Run is invoked again only after the previous
\* call has returned (Run blocks its caller).
ApiRun(r) ==
  /\ runPc[r] = "idle"
  /\ \A q \in RunCalls : q < r => runPc[q] = "returned"
  /\ runPc' = [runPc EXCEPT ![r] = "check"]
  /\ UNCHANGED <<cfgVars, fwdVars, inShutdown, runRes, ln, sdPc, sdRes, sdCtxDone, lnerr, conn, mainVars>>
  /\ UNCHANGED logger

\* Some caller invokes Prxy.Shutdown with a context that has a deadline.
ApiShutdown(s) ==
  /\ ShutdownBegin(s)
  /\ UNCHANGED mainVars

\* ------------------------------------------------ the forwarding engine

\* The requests clients send to the listener: method, path and query of the
\* request line (the path of a request starts with a slash), the Host header
\* (the listen address), the address of the client, and the other headers,
\* each a name (in canonical form, as the server stores them) with its
\* values. A plain GET, a POST with a query, a websocket upgrade, and a
\* request with hop-by-hop headers, one of them named by Connection.
InboundRequests == {
  [method |-> "GET", path |-> Chars("/"), rawQuery |-> <<>>,
   host |-> Chars("localhost:8080"), remoteAddr |-> Chars("127.0.0.1:54321"),
   header |-> { [name |-> Chars("Accept"), value |-> <<Chars("*/*")>>] }],
  [method |-> "POST", path |-> Chars("/some/path"), rawQuery |-> Chars("q=1"),
   host |-> Chars("localhost:8080"), remoteAddr |-> Chars("127.0.0.1:54321"),
   header |-> { [name |-> Chars("User-Agent"), value |-> <<Chars("curl/8.0")>>] }],
  [method |-> "GET", path |-> Chars("/ws"), rawQuery |-> <<>>,
   host |-> Chars("localhost:8080"), remoteAddr |-> Chars("127.0.0.1:54321"),
   header |-> { [name |-> Chars("Connection"), value |-> <<Chars("Upgrade")>>],
                [name |-> Chars("Upgrade"), value |-> <<Chars("websocket")>>],
                [name |-> Chars("User-Agent"), value |-> <<Chars("ws/1")>>] }],
  [method |-> "GET", path |-> Chars("/"), rawQuery |-> <<>>,
   host |-> Chars("localhost:8080"), remoteAddr |-> Chars("127.0.0.1:54321"),
   header |-> { [name |-> Chars("Connection"), value |-> <<Chars("keep-alive, x-trace")>>],
                [name |-> Chars("Keep-Alive"), value |-> <<Chars("timeout=5")>>],
                [name |-> Chars("X-Trace"), value |-> <<Chars("abc")>>],
                [name |-> Chars("Te"), value |-> <<Chars("trailers")>>],
                [name |-> Chars("Proxy-Authorization"), value |-> <<Chars("Basic xyz")>>],
                [name |-> Chars("X-Forwarded-For"), value |-> <<Chars("10.0.0.1")>>],
                [name |-> Chars("Accept"), value |-> <<Chars("*/*")>>] }] }

\* The request as the server hands it to the handler: the URL of a request
\* received by a server holds the path and the query only.
ServerRequest(r) ==
  [method |-> r.method,
   url |-> [EmptyURL EXCEPT !.path = r.path, !.rawQuery = r.rawQuery],
   host |-> r.host,
   header |-> r.header,
   remoteAddr |-> r.remoteAddr]

\* httputil singleJoiningSlash: a and b joined with one slash between them.
singleJoiningSlash(a, b) ==
  LET aslash == HasSuffix(a, <<"/">>)
      bslash == HasPrefix(b, <<"/">>)
  IN IF aslash /\ bslash THEN a \o Tail(b)
     ELSE IF ~aslash /\ ~bslash THEN a \o <<"/">> \o b
     ELSE a \o b

\* httputil rewriteRequestURL, the Director NewSingleHostReverseProxy(target)
\* installs: scheme and host of the target, the joined path (no RawPath: the
\* inputs hold no escapes), the target's query before the request's.
rewriteRequestURL(r, target) ==
  [r EXCEPT !.url.scheme = target.scheme,
            !.url.host = target.host,
            !.url.path = singleJoiningSlash(target.path, r.url.path),
            !.url.rawQuery =
               IF target.rawQuery = <<>> \/ r.url.rawQuery = <<>>
                 THEN target.rawQuery \o r.url.rawQuery
                 ELSE target.rawQuery \o <<"&">> \o r.url.rawQuery]

\* Mutant of Director: the original Director alone, the Host header is left
\* as the client sent it.
DirectorKeepHost(r, target) == rewriteRequestURL(r, target)

\* reverseProxyHandler.Director of prxy.New: originalDirector(req), then
\* req.Host = parsedTargetURL.Host.
Director(r, target) ==
  [rewriteRequestURL(r, target) EXCEPT !.host = target.host]

\* textproto: the characters a header name is made of.
HeaderFieldChar(c) ==
  \/ IsLetter(c)
  \/ IsDigit(c)
  \/ c \in {"!", "#", "$", "%", "&", "*", "+", "-", ".", "^", "_", "|", "~"}

\* textproto.CanonicalMIMEHeaderKey: the first letter and every letter after
\* a hyphen in upper case, the others in lower case; a name that holds
\* another character than those of header names is left as it is.
CanonicalMIMEHeaderKey(k) ==
  IF \E i \in 1..Len(k) : ~HeaderFieldChar(k[i])
    THEN k
    ELSE [i \in 1..Len(k) |->
            IF i = 1 \/ k[i - 1] = "-" THEN ToUpperChar(k[i]) ELSE ToLowerChar(k[i])]

\* strings.Split(s, ","): the fields between the commas.
RECURSIVE SplitComma(_)
SplitComma(s) ==
  With(Index(s, ","), LAMBDA i :
    IF i = 0 THEN <<s>>
             ELSE <<SubSeq(s, 1, i - 1)>> \o SplitComma(SubSeq(s, i + 1, Len(s))))

\* textproto.TrimString / httpguts trimOWS: spaces and tabs at both ends are
\* dropped.
RECURSIVE TrimString(_)
TrimString(s) ==
  IF s # <<>> /\ s[1] \in {" ", "\t"} THEN TrimString(Tail(s))
  ELSE IF s # <<>> /\ s[Len(s)] \in {" ", "\t"} THEN TrimString(SubSeq(s, 1, Len(s) - 1))
  ELSE s

\* strings.Join(elems, ", ").
RECURSIVE JoinComma(_)
JoinComma(elems) ==
  IF elems = <<>> THEN <<>>
  ELSE IF Len(elems) = 1 THEN elems[1]
  ELSE elems[1] \o <<",", " ">> \o JoinComma(Tail(elems))

\* http.Header: h[key], the values of the key as it is written (nil when
\* the header is absent).
HeaderValues(h, key) ==
  IF \E e \in h : e.name = key THEN (CHOOSE e \in h : e.name = key).value ELSE <<>>

\* http.Header.Get: the first value of the canonical key, "" when absent.
HeaderGet(h, key) ==
  With(HeaderValues(h, CanonicalMIMEHeaderKey(key)), LAMBDA v :
    IF v = <<>> THEN <<>> ELSE v[1])

\* http.Header.Del and http.Header.Set, on the canonical key.
HeaderDel(h, key) == { e \in h : e.name # CanonicalMIMEHeaderKey(key) }

HeaderSet(h, key, value) ==
  HeaderDel(h, key) \cup {[name |-> CanonicalMIMEHeaderKey(key), value |-> <<value>>]}

\* httpguts.HeaderValuesContainsToken: whether one of the comma-separated
\* fields of one of the values is the token, letter case ignored.
HeaderValuesContainsToken(values, token) ==
  \E i \in 1..Len(values) :
    With(SplitComma(values[i]), LAMBDA fields :
      \E j \in 1..Len(fields) : ToLower(TrimString(fields[j])) = ToLower(token))

\* httputil upgradeType: the Upgrade header of a request whose Connection
\* header holds the token Upgrade, "" otherwise.
upgradeType(h) ==
  IF HeaderValuesContainsToken(HeaderValues(h, Chars("Connection")), Chars("Upgrade"))
    THEN HeaderGet(h, Chars("Upgrade"))
    ELSE <<>>

\* httputil hopHeaders.
HopHeaders ==
  { Chars("Connection"), Chars("Proxy-Connection"), Chars("Keep-Alive"),
    Chars("Proxy-Authenticate"), Chars("Proxy-Authorization"), Chars("Te"),
    Chars("Trailer"), Chars("Transfer-Encoding"), Chars("Upgrade") }

\* The names the Connection header lists: its fields, trimmed, those that
\* are not empty.
ConnectionListed(h) ==
  With(HeaderValues(h, Chars("Connection")), LAMBDA values :
    UNION { With(SplitComma(values[i]), LAMBDA fields :
              { TrimString(fields[j]) : j \in 1..Len(fields) } \ {<<>>})
            : i \in 1..Len(values) })

\* Mutant of removeHopByHopHeaders: only the fixed hop-by-hop headers are
\* removed, not those the Connection header names.
removeHopHeadersOnly(h) == { e \in h : e.name \notin HopHeaders }

\* httputil removeHopByHopHeaders: the headers listed in Connection are
\* deleted, then the hop-by-hop headers.
removeHopByHopHeaders(h) ==
  With({ CanonicalMIMEHeaderKey(sf) : sf \in ConnectionListed(h) }, LAMBDA listed :
    { e \in h : e.name \notin listed /\ e.name \notin HopHeaders })

\* net.SplitHostPort on "host:port" (no brackets): the host, or an error
\* when the port or the host is missing a single colon.
netSplitHostPort(hostport) ==
  With(LastIndex(hostport, ":"), LAMBDA i :
    IF i = 0 THEN [host |-> <<>>, err |-> "missing port in address"]
    ELSE IF HasChar(SubSeq(hostport, 1, i - 1), ":")
      THEN [host |-> <<>>, err |-> "too many colons in address"]
    ELSE [host |-> SubSeq(hostport, 1, i - 1), err |-> Nil])

\* ServeHTTP, X-Forwarded-For: the client's IP is appended to the values the
\* request came with.
AddForwardedFor(h, remoteAddr) ==
  With(netSplitHostPort(remoteAddr), LAMBDA client :
    IF client.err # Nil THEN h
    ELSE With(HeaderValues(h, Chars("X-Forwarded-For")), LAMBDA prior :
           HeaderSet(h, Chars("X-Forwarded-For"),
                     IF Len(prior) > 0 THEN JoinComma(prior) \o <<",", " ">> \o client.host
                                       ELSE client.host)))

\* ServeHTTP between the Director and the transport, on the headers of
\* outreq (inHeader: those of the inbound request): the hop-by-hop headers
\* are removed, "Te: trailers" is set when the client accepts trailers,
\* Connection and Upgrade are set again for a protocol upgrade,
\* X-Forwarded-For is extended, and an absent User-Agent is set to "".
CleanHeader(h, inHeader, remoteAddr) ==
  With(upgradeType(h), LAMBDA reqUpType :
  With(removeHopByHopHeaders(h), LAMBDA h1 :
  With(IF HeaderValuesContainsToken(HeaderValues(inHeader, Chars("Te")), Chars("trailers"))
         THEN HeaderSet(h1, Chars("Te"), Chars("trailers")) ELSE h1, LAMBDA h2 :
  With(IF reqUpType # <<>>
         THEN HeaderSet(HeaderSet(h2, Chars("Connection"), Chars("Upgrade")),
                        Chars("Upgrade"), reqUpType)
         ELSE h2, LAMBDA h3 :
  With(AddForwardedFor(h3, remoteAddr), LAMBDA h4 :
    IF \E e \in h4 : e.name = Chars("User-Agent")
      THEN h4
      ELSE HeaderSet(h4, Chars("User-Agent"), <<>>))))))

\* No URL: the nil *url.URL a Proxy function returns for "no proxy".
NilURL == [EmptyURL EXCEPT !.err = "nil URL"]

\* Mutant of ProxyURL: a proxy function that, like ProxyFromEnvironment with
\* NO_PROXY, uses no proxy for requests to localhost.
ProxyURLBypassLocal(fixedURL, r) ==
  IF HasPrefix(r.url.host, Chars("localhost")) THEN NilURL ELSE fixedURL

\* transport.Proxy = http.ProxyURL(parsedProxyURL): the function that returns
\* the fixed URL for every request.
ProxyURL(fixedURL, r) == fixedURL

\* net/http portMap: the default port of a scheme ("" when it has none).
PortMap(scheme) ==
  IF scheme = Chars("http") THEN Chars("80")
  ELSE IF scheme = Chars("https") THEN Chars("443")
  ELSE IF scheme \in {Chars("socks5"), Chars("socks5h")} THEN Chars("1080")
  ELSE <<>>

\* net/url splitHostPort: the host and the port of "host" or "host:port".
SplitHostPort(hostPort) ==
  With(LastIndex(hostPort, ":"), LAMBDA colon :
    IF colon # 0 /\ validOptionalPort(SubSeq(hostPort, colon, Len(hostPort)))
      THEN [host |-> SubSeq(hostPort, 1, colon - 1),
            port |-> SubSeq(hostPort, colon + 1, Len(hostPort))]
      ELSE [host |-> hostPort, port |-> <<>>])

\* net/http canonicalAddr: "host:port" of a URL, the port of the scheme when
\* the URL names none.
canonicalAddr(u) ==
  With(SplitHostPort(u.host), LAMBDA hp :
    JoinHostPort(hp.host, IF hp.port = <<>> THEN PortMap(u.scheme) ELSE hp.port))

ErrUnsupportedScheme == "unsupported protocol scheme"
ErrNoHost == "http: no Host in request URL"

\* Transport.RoundTrip up to the dial: requests of other schemes than http
\* and https and requests without host are refused; the connect method takes
\* its proxy from t.Proxy(req), and the address dialled is the proxy's when
\* there is one, the target's otherwise. Through a proxy, an https request is
\* tunnelled with CONNECT to the target address, an http request is sent to
\* the proxy in absolute form.
connectMethod(r, fixedURL) ==
  IF r.url.scheme \notin {Chars("http"), Chars("https")}
    THEN [NoDial EXCEPT !.err = ErrUnsupportedScheme]
  ELSE IF r.url.host = <<>>
    THEN [NoDial EXCEPT !.err = ErrNoHost]
  ELSE With(ProxyURL(fixedURL, r), LAMBDA proxyURL :
         IF proxyURL = NilURL
           THEN [NoDial EXCEPT !.via = "direct", !.addr = canonicalAddr(r.url),
                               !.how = "direct"]
         ELSE IF proxyURL.scheme \in {Chars("socks5"), Chars("socks5h")}
           THEN [NoDial EXCEPT !.via = "proxy", !.addr = canonicalAddr(proxyURL),
                               !.how = "socks", !.tunnel = canonicalAddr(r.url)]
         ELSE IF r.url.scheme = Chars("http")
           THEN [NoDial EXCEPT !.via = "proxy", !.addr = canonicalAddr(proxyURL),
                               !.how = "forward"]
         ELSE [NoDial EXCEPT !.via = "proxy", !.addr = canonicalAddr(proxyURL),
                             !.how = "connect", !.tunnel = canonicalAddr(r.url)])

\* The server variables as prxy.New leaves them: nothing runs yet.
ServerIdle ==
  /\ inShutdown = FALSE
  /\ runPc = [r \in RunCalls |-> "idle"]
  /\ runRes = [r \in RunCalls |-> "none"]
  /\ ln = [r \in RunCalls |-> NoListener]
  /\ sdPc = [s \in ShutdownCalls |-> "idle"]
  /\ sdRes = [s \in ShutdownCalls |-> "none"]
  /\ sdCtxDone = [s \in ShutdownCalls |-> FALSE]
  /\ lnerr = [s \in ShutdownCalls |-> Nil]
  /\ conn = [c \in 1..MaxConns |-> NoConn]
  /\ gPc = "none"
  /\ errChan = <<>>
  /\ signalled = FALSE
  /\ exited = FALSE
  /\ exitCode = 0
  /\ fatalErr = <<>>
  /\ logAddr = <<>>
  /\ clock = 0

\* A caller of the packages, before anything was validated or built: any
\* target and proxy strings, the default listen address.
InitFwd ==
  /\ cfgTarget \in RawURLs
  /\ cfgProxy \in RawURLs
  /\ cfgHost = Chars("localhost")
  /\ cfgPort = 0
  /\ cfgLogging = DefaultLogging
  /\ srvAddr = <<>>
  /\ valRes = [target |-> "none", proxy |-> "none"]
  /\ engine = NoEngine
  /\ req = NoRequest
  /\ logger = NoLogger
  /\ mainPc = "caller"
  /\ ServerIdle

\* validation.ValidateURL is called on cfg.Target or on cfg.Proxy.
CallValidateURL(k) ==
  /\ engine.st = "none"
  /\ valRes[k] = "none"
  /\ valRes' = [valRes EXCEPT ![k] = ValidateURL(IF k = "target" THEN cfgTarget
                                                                ELSE cfgProxy)]
  /\ UNCHANGED <<cfgHost, cfgPort, cfgTarget, cfgProxy, cfgLogging, srvAddr,
                 engine, req, srvVars, conn, mainVars>>
  /\ UNCHANGED logger

\* prxy.New(cfg, logger) is called.
CallNew ==
  /\ engine.st = "none"
  /\ engine' = New(cfgTarget, cfgProxy)
  /\ srvAddr' = IF engine'.st = "built" THEN NewAddr(cfgHost, cfgPort) ELSE srvAddr
  /\ UNCHANGED <<cfgHost, cfgPort, cfgTarget, cfgProxy, cfgLogging, valRes, req,
                 srvVars, conn, mainVars>>
  /\ UNCHANGED logger

\* ReverseProxy.ServeHTTP is entered with a request: outreq is its clone.
Receive(r) ==
  /\ engine.st = "built"
  /\ req.pc = "idle"
  /\ req' = [NoRequest EXCEPT !.pc = "received", !.in = ServerRequest(r),
                              !.out = ServerRequest(r)]
  /\ UNCHANGED <<cfgVars, valRes, engine, srvVars, conn, mainVars>>
  /\ UNCHANGED logger

\* ServeHTTP: p.Director(outreq).
Direct ==
  /\ req.pc = "received"
  /\ req' = [req EXCEPT !.pc = "directed", !.out = Director(req.out, engine.target)]
  /\ UNCHANGED <<cfgVars, valRes, engine, srvVars, conn, mainVars>>
  /\ UNCHANGED logger

\* ServeHTTP: the headers of outreq are made ready for the next hop.
Clean ==
  /\ req.pc = "directed"
  /\ req' = [req EXCEPT !.pc = "cleaned",
                        !.out.header = CleanHeader(req.out.header, req.in.header,
                                                   req.in.remoteAddr)]
  /\ UNCHANGED <<cfgVars, valRes, engine, srvVars, conn, mainVars>>
  /\ UNCHANGED logger

\* ServeHTTP: transport.RoundTrip(outreq) picks the connection to make.
Dial ==
  /\ req.pc = "cleaned"
  /\ req' = [req EXCEPT !.pc = "dialed", !.dial = connectMethod(req.out, engine.proxy)]
  /\ UNCHANGED <<cfgVars, valRes, engine, srvVars, conn, mainVars>>
  /\ UNCHANGED logger

\* ServeHTTP returns: the handler is ready for the next request.
Respond ==
  /\ req.pc = "dialed"
  /\ req' = NoRequest
  /\ UNCHANGED <<cfgVars, valRes, engine, srvVars, conn, mainVars>>
  /\ UNCHANGED logger

\* ---------------------------------------------------------------- startup

\* config: the allowed values of the logging settings.
ValidLogLevels == {"debug", "info", "warn", "error", "fatal"}
ValidLogFormats == {"text", "json"}
ValidLogOutputs == {"stdout", "stderr", "file"}

\* validation.Validate: nil when the value is one of the options.
Validate(value, validOptions) ==
  IF value \in validOptions THEN Nil ELSE "invalid value"

\* Mutant of LoggingValidate: a file output with an empty path is accepted.
LoggingValidateAnyPath(cfg) ==
  LET errs ==
        (IF Validate(cfg.level, ValidLogLevels) # Nil
           THEN <<"invalid log level">> ELSE <<>>) \o
        (IF Validate(cfg.format, ValidLogFormats) # Nil
           THEN <<"invalid log format">> ELSE <<>>) \o
        (IF Validate(cfg.output, ValidLogOutputs) # Nil
           THEN <<"invalid log output destination">> ELSE <<>>)
  IN IF Len(errs) > 0 THEN errs ELSE Nil

\* LoggingConfig.Validate: the errors of level, format, output and path,
\* joined; nil when there are none.
LoggingValidate(cfg) ==
  LET errs ==
        (IF Validate(cfg.level, ValidLogLevels) # Nil
           THEN <<"invalid log level">> ELSE <<>>) \o
        (IF Validate(cfg.format, ValidLogFormats) # Nil
           THEN <<"invalid log format">> ELSE <<>>) \o
        (IF Validate(cfg.output, ValidLogOutputs) # Nil
           THEN <<"invalid log output destination">> ELSE <<>>) \o
        (IF cfg.output = "file" /\ cfg.path = ""
           THEN <<"log path must be specified when output is 'file'">> ELSE <<>>)
  IN IF Len(errs) > 0 THEN errs ELSE Nil

MinPort == 0
MaxPort == 65535

\* Mutant of validateConfig: the port is not checked.
validateConfigAnyPort(target, proxy, port, logging) ==
  IF ValidateURL(target) # Nil THEN <<"invalid target URL", ValidateURL(target)>>
  ELSE IF ValidateURL(proxy) # Nil THEN <<"invalid proxy URL", ValidateURL(proxy)>>
  ELSE LoggingValidate(logging)

\* config validateConfig: the target URL, the proxy URL, the port, the
\* logging settings, in this order; the first error is returned.
validateConfig(target, proxy, port, logging) ==
  IF ValidateURL(target) # Nil THEN <<"invalid target URL", ValidateURL(target)>>
  ELSE IF ValidateURL(proxy) # Nil THEN <<"invalid proxy URL", ValidateURL(proxy)>>
  ELSE IF port < MinPort \/ port > MaxPort THEN <<"invalid port", port>>
  ELSE LoggingValidate(logging)

\* The values the command line gives: target and proxy (required flags), the
\* port, the logging settings; the host is left at its default.
FlagTargets == { Chars("https://example.com/api/"), Chars("ftp://example.com"), <<>>,
                 Chars("http://") }
FlagProxies == { Chars("http://proxy.test:3128"), Chars("://leading.colon.com") }
FlagPorts == { 0 - 1, 0, 8080, 65536 }
FlagLoggings == { DefaultLogging, [DefaultLogging EXCEPT !.output = "file"] }

\* The process at the start of the Action: nothing is validated or built.
InitMain ==
  /\ cfgTarget \in FlagTargets
  /\ cfgProxy \in FlagProxies
  /\ cfgHost = Chars("localhost")
  /\ cfgPort \in FlagPorts
  /\ cfgLogging \in FlagLoggings
  /\ srvAddr = <<>>
  /\ valRes = [target |-> "none", proxy |-> "none"]
  /\ engine = NoEngine
  /\ req = NoRequest
  /\ logger = NoLogger
  /\ mainPc = "config"
  /\ ServerIdle

\* config.New(cmd): the configuration is validated; an error makes the Action
\* return "failed to initialize configuration: invalid configuration: ...".
MainConfig ==
  /\ ~exited
  /\ mainPc = "config"
  /\ valRes' = [target |-> ValidateURL(cfgTarget),
                proxy |-> IF ValidateURL(cfgTarget) = Nil THEN ValidateURL(cfgProxy)
                                                         ELSE "none"]
  /\ IF validateConfig(cfgTarget, cfgProxy, cfgPort, cfgLogging) # Nil
       THEN Fatal("failed to initialize configuration",
                  validateConfig(cfgTarget, cfgProxy, cfgPort, cfgLogging))
       ELSE /\ mainPc' = "logger"
            /\ UNCHANGED <<exited, exitCode, fatalErr>>
  /\ UNCHANGED <<cfgVars, engine, req, srvVars, conn, gPc, errChan, signalled,
                 logAddr, clock>>
  /\ UNCHANGED logger

\* logging.New(&cfg.Logging): with a validated configuration the output is
\* stdout or stderr (no flag sets the path a file output needs) and the
\* handler is built; the logger is ready.
MainLogger ==
  /\ ~exited
  /\ mainPc = "logger"
  /\ \E openErr \in {Nil, ErrOpenFile} :
       IF LoggingNew(cfgLogging, openErr).st = "none"
         THEN /\ Fatal("failed to initialize logger", LoggingNew(cfgLogging, openErr).newErr)
              /\ logger' = LoggingNew(cfgLogging, openErr)
         ELSE /\ mainPc' = "new"
              /\ logger' = Emit(LoggingNew(cfgLogging, openErr), LevelDebug,
                                "Configuration loaded successfully", <<"config">>)
              /\ UNCHANGED <<exited, exitCode, fatalErr>>
  /\ UNCHANGED <<cfgVars, fwdVars, srvVars, conn, gPc, errChan, signalled,
                 logAddr, clock>>

\* prxy.New(cfg, logger): an error makes the Action return "failed to create
\* proxy server: ..."; otherwise signal.NotifyContext is registered next.
MainNew ==
  /\ ~exited
  /\ mainPc = "new"
  /\ logger' = Emit(logger, LevelInfo, "Starting prxy...", <<"version">>)
  /\ engine' = New(cfgTarget, cfgProxy)
  /\ IF engine'.st = "failed"
       THEN /\ Fatal("failed to create proxy server", engine'.err)
            /\ UNCHANGED srvAddr
       ELSE /\ srvAddr' = NewAddr(cfgHost, cfgPort)
            /\ mainPc' = "spawn"
            /\ UNCHANGED <<exited, exitCode, fatalErr>>
  /\ UNCHANGED <<cfgHost, cfgPort, cfgTarget, cfgProxy, cfgLogging, valRes, req,
                 srvVars, conn, gPc, errChan, signalled, logAddr, clock>>

\* ------------------------------------------------- the logging packages

\* The table of TestLoggingConfigValidate: a configuration and whether
\* Validate is expected to return an error.
LoggingTests == {
  [config |-> [level |-> "info", format |-> "text", output |-> "file", path |-> "/var/log/app.log"],
   expectError |-> FALSE],
  [config |-> [level |-> "debug", format |-> "json", output |-> "stdout", path |-> ""],
   expectError |-> FALSE],
  [config |-> [level |-> "", format |-> "", output |-> "", path |-> ""],
   expectError |-> TRUE],
  [config |-> [level |-> "invalid_level_value", format |-> "text", output |-> "stdout", path |-> ""],
   expectError |-> TRUE],
  [config |-> [level |-> "info", format |-> "invalid_format_value", output |-> "stdout", path |-> ""],
   expectError |-> TRUE],
  [config |-> [level |-> "info", format |-> "text", output |-> "invalid_output_value", path |-> ""],
   expectError |-> TRUE],
  [config |-> [level |-> "info", format |-> "text", output |-> "file", path |-> ""],
   expectError |-> TRUE],
  [config |-> [level |-> "other_invalid_level", format |-> "text", output |-> "file", path |-> "/tmp/test.log"],
   expectError |-> TRUE],
  [config |-> [level |-> "info", format |-> "another_invalid_format", output |-> "file", path |-> "/tmp/test.log"],
   expectError |-> TRUE] }

\* The table of TestParseLevel: a configured level and the slog level
\* parseLevel is expected to give.
ParseLevelTests == {
  [inputConfigLvl |-> "debug", expectedSlogLvl |-> LevelDebug],
  [inputConfigLvl |-> "info", expectedSlogLvl |-> LevelInfo],
  [inputConfigLvl |-> "warn", expectedSlogLvl |-> LevelWarn],
  [inputConfigLvl |-> "error", expectedSlogLvl |-> LevelError],
  [inputConfigLvl |-> "verbose", expectedSlogLvl |-> LevelInfo],
  [inputConfigLvl |-> "", expectedSlogLvl |-> LevelInfo] }

\* The logging settings a caller passes: the levels, formats and outputs the
\* configuration allows, the values of the tests, and levels in the other
\* spellings slog reads (upper case, an offset) or does not (a sign without
\* digits); with and without a path.
LogLevels == ValidLogLevels \cup { t.inputConfigLvl : t \in ParseLevelTests }
               \cup { "INFO", "warn+2", "error-", "invalid_level_value" }
LogFormats == ValidLogFormats \cup { "invalid_format_value" }
LogOutputs == ValidLogOutputs \cup { "invalid_output_value" }
LogPaths == { "", "/tmp/test.log" }
LoggingConfigs ==
  { [level |-> l, format |-> f, output |-> o, path |-> p] :
      l \in LogLevels, f \in LogFormats, o \in LogOutputs, p \in LogPaths }
    \cup { t.config : t \in LoggingTests }

\* The number of Fatal calls the model follows.
MaxFatals == 2

\* A caller of the config and logging packages, with some logging settings
\* and no Logger yet.
InitLog ==
  /\ cfgTarget = <<>>
  /\ cfgProxy = <<>>
  /\ cfgHost = Chars("localhost")
  /\ cfgPort = 0
  /\ cfgLogging \in LoggingConfigs
  /\ srvAddr = <<>>
  /\ valRes = [target |-> "none", proxy |-> "none"]
  /\ engine = NoEngine
  /\ req = NoRequest
  /\ logger = NoLogger
  /\ mainPc = "caller"
  /\ ServerIdle

\* cfg.Validate() is called on the logging settings.
CallLoggingValidate ==
  /\ ~exited
  /\ logger.valid = "none"
  /\ logger' = [logger EXCEPT !.valid = LoggingValidate(cfgLogging)]
  /\ UNCHANGED <<cfgVars, fwdVars, srvVars, conn, mainVars>>

\* logging.New(&cfg) is called; os.OpenFile succeeds or fails.
CallLoggingNew ==
  /\ ~exited
  /\ logger.st = "none"
  /\ logger.newErr = Nil
  /\ \E openErr \in {Nil, ErrOpenFile} :
       logger' = [LoggingNew(cfgLogging, openErr) EXCEPT !.valid = logger.valid]
  /\ UNCHANGED <<cfgVars, fwdVars, srvVars, conn, mainVars>>

\* A Logger is built as a struct literal, as the tests do: with no closer or
\* the do-nothing closer, with no exit function or one that records its
\* argument and returns; its handler is a text handler at the Error level.
MakeLogger(closer, exitFunc) ==
  /\ ~exited
  /\ logger.st = "none"
  /\ logger.newErr = Nil
  /\ logger' = [logger EXCEPT !.st = "open", !.closer = closer,
                              !.dest = IF closer = "nil" THEN "none" ELSE "buffer",
                              !.exitFunc = exitFunc,
                              !.format = "text", !.level = LevelError]
  /\ UNCHANGED <<cfgVars, fwdVars, srvVars, conn, mainVars>>

\* Logger.Debug, Info, Warn or Error is called.
CallLog(level) ==
  /\ ~exited
  /\ logger.st = "open"
  /\ logger.pc = "idle"
  /\ logger' = Emit(logger, level, "message", <<"key", "value">>)
  /\ UNCHANGED <<cfgVars, fwdVars, srvVars, conn, mainVars>>

\* Logger.Close is called.
CallClose ==
  /\ ~exited
  /\ logger.st = "open"
  /\ logger.closes < MaxCloses
  /\ logger' = Close(logger)
  /\ UNCHANGED <<cfgVars, fwdVars, srvVars, conn, mainVars>>

\* Logger.Fatal, its first statement: slogger.Error(msg, args...).
FatalLog ==
  /\ ~exited
  /\ logger.st = "open"
  /\ logger.pc = "idle"
  /\ Len(logger.exits) < MaxFatals
  /\ logger' = [Emit(logger, LevelError, "critical failure happened",
                     <<"code", 123, "component", "test">>) EXCEPT !.pc = "fatal"]
  /\ UNCHANGED <<cfgVars, fwdVars, srvVars, conn, mainVars>>

\* Mutant of FatalExit: the exit function is called with code 0.
FatalExitZero ==
  /\ ~exited
  /\ logger.pc = "fatal"
  /\ logger' = [logger EXCEPT !.pc = "idle", !.exits = Append(logger.exits, 0)]
  /\ IF logger.exitFunc \in {"nil", "os.Exit"}
       THEN /\ exited' = TRUE
            /\ exitCode' = 0
       ELSE UNCHANGED <<exited, exitCode>>
  /\ UNCHANGED <<cfgVars, fwdVars, srvVars, conn, mainPc, gPc, errChan, signalled,
                 fatalErr, logAddr, clock>>

\* Logger.Fatal, its second statement: l.exitFunc(1), or os.Exit(1) when
\* there is no exit function. os.Exit ends the process; the function of a
\* test returns and so does Fatal.
FatalExit ==
  /\ ~exited
  /\ logger.pc = "fatal"
  /\ logger' = [logger EXCEPT !.pc = "idle", !.exits = Append(logger.exits, 1)]
  /\ IF logger.exitFunc \in {"nil", "os.Exit"}
       THEN /\ exited' = TRUE
            /\ exitCode' = 1
       ELSE UNCHANGED <<exited, exitCode>>
  /\ UNCHANGED <<cfgVars, fwdVars, srvVars, conn, mainPc, gPc, errChan, signalled,
                 fatalErr, logAddr, clock>>

\* ---------------------------------------------------------- specifications

\* The steps of the server and of its clients.
ServerStep ==
  \/ \E r \in RunCalls : LnsCheck(r)
  \/ \E r \in RunCalls : Listen(r)
  \/ \E r \in RunCalls : ListenFail(r)
  \/ \E r \in RunCalls : Track(r)
  \/ \E r \in RunCalls, c \in Conns : Accept(r, c)
  \/ \E r \in RunCalls, failed \in BOOLEAN : ServeReturn(r, failed)
  \/ \E c \in Conns : GrowOld(c)
  \/ \E c \in Conns : ReadRequest(c)
  \/ \E c \in Conns : RoundTripOK(c)
  \/ \E c \in Conns : RoundTripErr(c)
  \/ \E c \in Conns : ErrorHandler(c)
  \/ \E s \in ShutdownCalls : CloseListeners(s)
  \/ \E s \in ShutdownCalls : ListenerGroupWait(s)
  \/ \E s \in ShutdownCalls : CloseIdleConns(s)
  \/ \E s \in ShutdownCalls : PollTick(s)
  \/ \E s \in ShutdownCalls : DeadlineElapse(s)
  \/ \E s \in ShutdownCalls : ShutdownTimeout(s)

\* The program: main.go's Action after prxy.New, its goroutine, the server.
Next ==
  \/ MainSpawn
  \/ GoLog
  \/ GoRun
  \/ GoSend
  \/ Signal
  \/ MainRecvErr
  \/ MainRecvSignal
  \/ Tick
  \/ MainShutdown
  \/ MainShutdownReturn
  \/ MainClose
  \/ MainReturn
  \/ ServerStep

Spec == Init /\ [][Next]_vars

\* The process with requests on several connections at once.
ConcurrentSpec == InitConcurrent /\ [][Next]_vars

\* The Prxy value used by arbitrary callers of Run and Shutdown.
NextApi ==
  \/ \E r \in RunCalls : ApiRun(r)
  \/ \E s \in ShutdownCalls : ApiShutdown(s)
  \/ ServerStep

ApiSpec == Init /\ [][NextApi]_vars

\* The Prxy value used by arbitrary callers, with the scheduling the Go
\* runtime gives: a Run call that can take a step of ListenAndServe / Serve
\* takes it (net.Listen returns, a failed Accept returns), and a Shutdown
\* call goes on to close the listeners. Clients and timers are not forced.
RunStep(r) ==
  LnsCheck(r) \/ Listen(r) \/ ListenFail(r) \/ Track(r) \/ ServeReturn(r, FALSE)

ApiLiveSpec ==
  /\ Init
  /\ [][NextApi]_vars
  /\ \A r \in RunCalls : WF_vars(RunStep(r))
  /\ \A s \in ShutdownCalls : WF_vars(CloseListeners(s))

\* The whole process: the Action from its first statement.
NextMain ==
  \/ MainConfig
  \/ MainLogger
  \/ MainNew
  \/ Next

MainSpec == InitMain /\ [][NextMain]_vars

\* The steps of the main goroutine and of the goroutine it starts.
MainStep ==
  \/ MainConfig
  \/ MainLogger
  \/ MainNew
  \/ MainSpawn
  \/ GoLog
  \/ GoRun
  \/ GoSend
  \/ MainRecvErr
  \/ MainRecvSignal
  \/ MainShutdown
  \/ MainShutdownReturn
  \/ MainClose
  \/ MainReturn

\* The steps of a Shutdown call that wait for nothing but the call itself.
ShutdownStep(s) ==
  CloseListeners(s) \/ ListenerGroupWait(s) \/ CloseIdleConns(s) \/ PollTick(s)

\* The whole process with the scheduling of the Go runtime: runnable
\* goroutines run (main, the goroutine of Run, Run's Serve loop, Shutdown),
\* time passes, and a case of Shutdown's select that is ready again and again
\* (ctx.Done() against the poll timer) is taken in the end, select choosing
\* at random among the ready cases. Clients, the upstream and the outbound
\* proxy are not forced to do anything: a request may hang forever.
MainLiveSpec ==
  /\ InitMain
  /\ [][NextMain]_vars
  /\ WF_vars(MainStep)
  /\ WF_vars(Tick)
  /\ \A r \in RunCalls : WF_vars(RunStep(r))
  /\ \A s \in ShutdownCalls : WF_vars(ShutdownStep(s))
  /\ \A s \in ShutdownCalls : SF_vars(DeadlineElapse(s))
  /\ \A s \in ShutdownCalls : SF_vars(ShutdownTimeout(s))

\* The packages used by any caller: ValidateURL, prxy.New, and the handler
\* New built serving requests.
NextFwd ==
  \/ \E k \in {"target", "proxy"} : CallValidateURL(k)
  \/ CallNew
  \/ \E r \in InboundRequests : Receive(r)
  \/ Direct
  \/ Clean
  \/ Dial
  \/ Respond

FwdSpec == InitFwd /\ [][NextFwd]_vars

\* The steps of a caller of the config and logging packages.
NextLog ==
  \/ CallLoggingValidate
  \/ CallLoggingNew
  \/ \E closer \in {"nil", "nop"}, exitFunc \in {"nil", "mock"} : MakeLogger(closer, exitFunc)
  \/ \E level \in {LevelDebug, LevelInfo, LevelWarn, LevelError} : CallLog(level)
  \/ CallClose
  \/ FatalLog
  \/ FatalExit

LogSpec == InitLog /\ [][NextLog]_vars

\* ------------------------------------------------------------------ claims

\* Some Shutdown call has got past closeListenersLocked.
ListenersClosed == \E s \in ShutdownCalls : sdPc[s] \notin {"idle", "closeListeners"}

\* A request is in flight on connection c.
InFlight(c) == conn[c].st \in {"active", "failed"}

C2_TimeoutClosesConnections ==
  \A s \in ShutdownCalls :
    sdRes[s] = DeadlineExceeded => \A c \in Conns : ~InFlight(c)

\* C2 (amended): Shutdown returns the deadline error only after its deadline
\* has elapsed, the step that returns it closes no connection (requests in
\* flight go on), and main turns that error into exit code 1.
C2_TimeoutLeavesConnections ==
  /\ [][\A s \in ShutdownCalls :
          sdRes[s] # DeadlineExceeded /\ sdRes'[s] = DeadlineExceeded
            => sdCtxDone[s] /\ conn' = conn]_vars
  /\ [](exited /\ sdRes[1] = DeadlineExceeded => exitCode = 1)

\* C2 witness: Shutdown has returned the deadline error and the process has
\* exited while a request was still in flight.
C2_Witness ==
  /\ sdRes[1] = DeadlineExceeded
  /\ exited
  /\ \E c \in Conns : InFlight(c)

\* C3: whenever Shutdown has been invoked while a Run call is executing, that
\* Run call eventually returns.
C3_RunReturnsAfterShutdown ==
  \A r \in RunCalls :
    (inShutdown /\ runPc[r] \in {"check", "listen", "track", "accept"})
      ~> (runPc[r] = "returned")

\* C3 witness: a Run call that was serving has returned ErrServerClosed after
\* Shutdown closed its listener.
C3_Witness ==
  /\ runPc[1] = "returned"
  /\ runRes[1] = ErrServerClosed
  /\ ln[1].closes = 1

C5_AddrIsBoundAddress ==
  \A r \in RunCalls :
    ln[r].st = "open" /\ cfgPort = 0 =>
      /\ ln[r].port # 0
      /\ Addr = JoinHostPort(cfgHost, Itoa(ln[r].port))

\* C6 (as stated): while no listener is bound (the server is not running),
\* Addr() is the empty string.
C6_AddrEmptyWhenNotRunning ==
  (\A r \in RunCalls : ln[r].st # "open") => Addr = <<>>

C8_SecondShutdownSafe ==
  /\ \A r \in RunCalls :
       /\ ln[r].closes <= 1
       /\ ln[r].st = "closed" <=> ln[r].closes = 1
       /\ ln[r].tracked => ln[r].st \in {"open", "closed"}
  /\ \A s \in ShutdownCalls :
       /\ sdPc[s] # "idle" => inShutdown
       /\ sdPc[s] = "returned" => sdRes[s] \in {Nil, DeadlineExceeded}

\* C8 witness: two Shutdown calls have both run closeListenersLocked on a
\* listener that is still tracked, and it is closed.
C8_Witness ==
  /\ sdPc[1] = "wait"
  /\ sdPc[2] = "wait"
  /\ \E r \in RunCalls : ln[r].tracked /\ ln[r].st = "closed"

\* The ServerState of the specification, read off the server. Before any
\* Shutdown: Listening while a Serve loop accepts (or connections it accepted
\* are still served), Stopped once a Serve loop has ended with the listener's
\* error, Created otherwise (no socket has been served yet). Once Shutdown was
\* invoked: ShuttingDown while a Run call or a connection is still there,
\* Stopped after.
ServerState ==
  IF inShutdown
    THEN IF \/ \E r \in RunCalls : runPc[r] \in {"listen", "track", "accept"}
            \/ Tracked(conn) # {}
           THEN "ShuttingDown" ELSE "Stopped"
    ELSE IF \E r \in RunCalls : runPc[r] = "accept" THEN "Listening"
    ELSE IF \E r \in RunCalls : runRes[r] = ErrAccept
           THEN IF Tracked(conn) # {} THEN "Listening" ELSE "Stopped"
    ELSE "Created"

\* The place of a state in Created -> Listening -> ShuttingDown -> Stopped.
Rank(st) == CASE st = "Created" -> 0 [] st = "Listening" -> 1
              [] st = "ShuttingDown" -> 2 [] st = "Stopped" -> 3

\* C9 (as stated): under any sequence of Run, Shutdown and listener errors
\* the state never moves back, and Stopped is never left.
C9_ForwardOnly ==
  [][/\ Rank(ServerState') >= Rank(ServerState)
     /\ ServerState = "Stopped" => ServerState' = "Stopped"]_vars

\* C9 (amended): once Shutdown has been invoked the state never moves back:
\* inShutdown stays set, no Run call enters the accept loop any more, a closed
\* listener stays closed, and Stopped is never left. (Before any Shutdown, a
\* Run call made after a listener error listens again.)
C9_ForwardOnlyAfterShutdown ==
  [][inShutdown =>
       /\ inShutdown'
       /\ Rank(ServerState') >= Rank(ServerState)
       /\ ServerState = "Stopped" => ServerState' = "Stopped"
       /\ \A r \in RunCalls :
            /\ runPc[r] # "accept" => runPc'[r] # "accept"
            /\ ln[r].st = "closed" => ln'[r].st = "closed"]_vars

\* C9 witness: after Shutdown ended (Stopped), Run was called again and
\* returned ErrServerClosed without a listener.
C9_Witness ==
  /\ ServerState = "Stopped"
  /\ inShutdown
  /\ ln[1].closes = 1
  /\ runPc[2] = "returned"
  /\ runRes[2] = ErrServerClosed
  /\ ln[2].st = "none"

\* C10: when the outbound leg of a request has failed, the response written
\* is a 502 whose body contains "Proxy Error"; writing it ends neither the
\* process nor the Serve loop, and the connection is kept for the next
\* request (unless the server is shutting down).
C10_UpstreamFailureIs502 ==
  [][\A c \in Conns :
       conn[c].st = "failed" /\ conn'[c].st # "failed" =>
         /\ conn'[c].last.status = StatusBadGateway
         /\ BodyContains(conn'[c].last.body, "Proxy Error")
         /\ conn'[c].st = IF inShutdown THEN "closed" ELSE "idle"
         /\ ~exited'
         /\ runPc' = runPc /\ runRes' = runRes /\ ln' = ln
         /\ inShutdown' = inShutdown]_vars

\* C10 witness: a 502 was written on a connection, which is kept and can
\* have its next request read, the Serve loop still accepting.
C10_Witness ==
  \E c \in Conns :
    /\ conn[c].last.status = StatusBadGateway
    /\ conn[c].st = "idle"
    /\ ENABLED ReadRequest(c)
    /\ runPc[1] = "accept"
    /\ ~inShutdown
    /\ ~exited

\* C11 (as stated): a request is cut off by the exit of the process only
\* when Shutdown's deadline has elapsed.
C11_DroppedOnlyAtDeadline ==
  \A c \in Conns : exited /\ InFlight(c) => sdRes[1] = DeadlineExceeded

\* C11 (amended): a request leaves flight only with a response written, a 502
\* when its outbound leg had failed; and a request is cut off with no response
\* only by the exit of the process with code 1, after Shutdown's deadline
\* elapsed or after Run returned the error of a failed Accept.
C11_DroppedOnlyAtExit ==
  /\ [][\A c \in Conns :
          InFlight(c) /\ ~InFlight(c)' =>
            /\ conn'[c].last.status # 0
            /\ conn[c].st = "failed" => conn'[c].last.status = StatusBadGateway]_vars
  /\ [](\A c \in Conns :
          exited /\ InFlight(c) =>
            /\ exitCode = 1
            /\ \/ sdRes[1] = DeadlineExceeded
               \/ sdPc[1] = "idle" /\ runRes[1] = ErrAccept)

\* C11 witness: the process has exited on Run's Accept error, no Shutdown
\* called, while a request whose outbound leg had failed awaited its 502.
C11_Witness ==
  /\ exited
  /\ runRes[1] = ErrAccept
  /\ sdPc[1] = "idle"
  /\ \E c \in Conns : conn[c].st = "failed"

\* The Director has rewritten the outbound request of the request in hand.
Directed == req.pc \notin {"idle", "received"}

\* C12 (as stated): the outbound request has the target's scheme and
\* authority, the target's host as Host header, the target's base path
\* concatenated with the inbound path as path, and the inbound query kept
\* (read generously: at the end of the outbound query).
C12_PathIsBaseConcatPath ==
  Directed =>
    /\ req.out.url.scheme = engine.target.scheme
    /\ req.out.url.host = engine.target.host
    /\ req.out.host = engine.target.host
    /\ req.out.url.path = engine.target.path \o req.in.url.path
    /\ HasSuffix(req.out.url.rawQuery, req.in.url.rawQuery)

\* C12 (amended): scheme, authority and Host header are the target's (the
\* port included when the target has one); the path is the target's base
\* path and the inbound path with exactly one slash between them; the query
\* is the target's own query, if any, then the inbound one, joined by "&"
\* when both are there.
C12_OutboundIsTargetJoinedPath ==
  Directed =>
    /\ req.out.url.scheme = engine.target.scheme
    /\ req.out.url.host = engine.target.host
    /\ req.out.host = engine.target.host
    /\ req.out.method = req.in.method
    /\ req.out.url.path =
         (IF HasSuffix(engine.target.path, <<"/">>)
            THEN SubSeq(engine.target.path, 1, Len(engine.target.path) - 1)
            ELSE engine.target.path) \o req.in.url.path
    /\ req.out.url.rawQuery \in
         { req.in.url.rawQuery,
           engine.target.rawQuery,
           engine.target.rawQuery \o <<"&">> \o req.in.url.rawQuery }
    /\ HasSuffix(req.out.url.rawQuery, req.in.url.rawQuery)
    /\ HasPrefix(req.out.url.rawQuery, engine.target.rawQuery)

\* C12 witness: /some/path?q=1 was sent to a target whose base path ends
\* with a slash, and the Director has joined them with one slash.
C12_Witness ==
  /\ Directed
  /\ req.in.url.path = Chars("/some/path")
  /\ req.in.url.rawQuery = Chars("q=1")
  /\ engine.target.path = Chars("/api/")
  /\ req.out.url.path = Chars("/api/some/path")
  /\ req.out.host = Chars("example.com")
  /\ req.in.host = Chars("localhost:8080")

\* C13: every connection the transport makes for an outbound request, for
\* http and https targets and for every method and path, goes to the address
\* of the configured outbound proxy; none is made to the target directly.
C13_AlwaysThroughProxy ==
  req.pc = "dialed" /\ req.dial.err = Nil =>
    /\ req.dial.via = "proxy"
    /\ req.dial.addr = canonicalAddr(engine.proxy)
    /\ req.out.url.scheme = Chars("https") /\ req.dial.how # "socks" =>
         /\ req.dial.how = "connect"
         /\ req.dial.tunnel = canonicalAddr(req.out.url)
    /\ req.out.url.scheme = Chars("http") /\ req.dial.how # "socks" =>
         req.dial.how = "forward"

\* C13 witness: a POST to an https target became a CONNECT tunnel through
\* the proxy at proxy.test:3128, while the target is another host.
C13_Witness ==
  /\ req.pc = "dialed"
  /\ req.in.method = "POST"
  /\ req.out.url.scheme = Chars("https")
  /\ req.dial.via = "proxy"
  /\ req.dial.how = "connect"
  /\ req.dial.addr = Chars("proxy.test:3128")
  /\ req.dial.tunnel = Chars("example.com:443")

\* C14 (as stated): when the target or the proxy URL is malformed (an empty
\* string, a scheme other than http and https, an empty host: what
\* ValidateURL rejects), prxy.New fails and no handler is created.
C14_MalformedURLFailsNew ==
  /\ engine.st # "none"
  /\ ValidateURL(cfgTarget) # Nil \/ ValidateURL(cfgProxy) # Nil
  => engine.st = "failed"

\* C14 (amended): prxy.New fails exactly when url.Parse fails on the target
\* or on the proxy, the target's error first; then no handler is created and
\* no request is ever handled. A URL that parses is accepted by New whatever
\* its scheme and host.
C14_NewFailsOnParseErrorOnly ==
  /\ engine.st # "none" =>
       /\ engine.st = "failed" <=>
            Parse(cfgTarget).err # Nil \/ Parse(cfgProxy).err # Nil
       /\ engine.err = ErrNewTarget <=> Parse(cfgTarget).err # Nil
       /\ engine.err = ErrNewProxy <=>
            Parse(cfgTarget).err = Nil /\ Parse(cfgProxy).err # Nil
  /\ engine.st = "failed" =>
       /\ ErrCannotParse \in {ValidateURL(cfgTarget), ValidateURL(cfgProxy)}
       /\ engine.target = NoEngine.target /\ engine.proxy = NoEngine.proxy
       /\ srvAddr = <<>>
       /\ req = NoRequest

\* C14 witness: New built a handler for a target of scheme ftp, which
\* ValidateURL rejects, and the handler took a request as far as the
\* transport, which refused it.
C14_Witness ==
  /\ engine.st = "built"
  /\ cfgTarget = Chars("ftp://example.com")
  /\ ValidateURL(cfgTarget) = ErrInvalidScheme
  /\ req.pc = "dialed"
  /\ req.dial.err = ErrUnsupportedScheme

\* The configuration is invalid: the target or the proxy URL is malformed,
\* or the port lies outside 0..65535.
InvalidConfiguration ==
  \/ ValidateURL(cfgTarget) # Nil
  \/ ValidateURL(cfgProxy) # Nil
  \/ cfgPort \notin 0..65535

\* C15: with an invalid configuration prxy.New and Run are never invoked and
\* nothing listens; the one step the process takes is the exit with code 1,
\* the configuration error printed.
C15_InvalidConfigNeverServes ==
  InvalidConfiguration =>
    /\ engine.st = "none"
    /\ srvAddr = <<>>
    /\ gPc = "none"
    /\ \A r \in RunCalls : runPc[r] = "idle" /\ ln[r].st = "none"
    /\ \A c \in Conns : conn[c] = NoConn
    /\ mainPc \in {"config", "exited"}
    /\ mainPc = "config" => ENABLED MainConfig /\ ~exited
    /\ mainPc = "exited" =>
         /\ exited
         /\ exitCode = 1
         /\ fatalErr[1] = "failed to initialize configuration"

\* C15 witness: both URLs are well-formed and the port is 65536; the process
\* has exited with code 1 on "invalid port", nothing built.
C15_Witness ==
  /\ ValidateURL(cfgTarget) = Nil
  /\ ValidateURL(cfgProxy) = Nil
  /\ cfgPort = 65536
  /\ exited
  /\ exitCode = 1
  /\ fatalErr = <<"failed to initialize configuration", ": ", <<"invalid port", 65536>> >>
  /\ engine.st = "none"

C17_BindFailureExitsNonZero ==
  exited /\ runRes[1] = ErrListen =>
    /\ exitCode # 0
    /\ fatalErr = <<"server stopped with an error", ": ", ErrListen>>
    /\ \A c \in Conns : conn[c] = NoConn

\* C18: after an interrupt the process terminates, and a Shutdown that main
\* has called returns, whether or not the requests in flight ever complete.
C18_InterruptedProcessTerminates ==
  /\ signalled ~> exited
  /\ (mainPc = "inShutdown") ~> (sdPc[1] = "returned")

\* C18 witness: a request is still in flight, its outbound leg unanswered,
\* when the 5 seconds are over; Shutdown has returned the deadline error
\* and the process has exited with it.
C18_Witness ==
  /\ exited
  /\ exitCode = 1
  /\ clock = ShutdownTimeoutSeconds
  /\ fatalErr = <<"error during graceful shutdown", ": ", DeadlineExceeded>>
  /\ \E c \in Conns : conn[c].st = "active"

\* ServeHTTP has made the headers of the outbound request ready.
Cleaned == req.pc \in {"cleaned", "dialed"}

\* C19 (as stated): no hop-by-hop header of the inbound request (Connection,
\* Keep-Alive, Proxy-Authenticate, Proxy-Authorization, TE, Trailer,
\* Transfer-Encoding, Upgrade) is on the outbound request with the same
\* values.
C19_NoHopHeaderVerbatim ==
  Cleaned =>
    \A e \in req.in.header :
      e.name \in { Chars("Connection"), Chars("Keep-Alive"), Chars("Proxy-Authenticate"),
                   Chars("Proxy-Authorization"), Chars("Te"), Chars("Trailer"),
                   Chars("Transfer-Encoding"), Chars("Upgrade") }
        => e \notin req.out.header

\* C19 (amended): the hop-by-hop headers of the inbound request and the
\* headers its Connection header names are removed; the only hop-by-hop
\* headers on the outbound request are those the proxy sets itself, "Te:
\* trailers" when the client's TE holds trailers, and "Connection: Upgrade"
\* with the client's Upgrade value when the client asks for a protocol
\* upgrade. Every other inbound header is passed on unchanged, except
\* X-Forwarded-For, to which the client's IP is appended; a User-Agent header
\* with an empty value is added when the client sent none.
C19_HopHeadersRebuilt ==
  Cleaned =>
    LET in == req.in.header
        out == req.out.header
        te == [name |-> Chars("Te"), value |-> <<Chars("trailers")>>]
        co == [name |-> Chars("Connection"), value |-> <<Chars("Upgrade")>>]
        up == [name |-> Chars("Upgrade"), value |-> <<HeaderGet(in, Chars("Upgrade"))>>]
        xff == Chars("X-Forwarded-For")
        ua == Chars("User-Agent")
        trailers == HeaderValuesContainsToken(HeaderValues(in, Chars("Te")), Chars("trailers"))
        upgrade == /\ HeaderValuesContainsToken(HeaderValues(in, Chars("Connection")),
                                                Chars("Upgrade"))
                   /\ HeaderGet(in, Chars("Upgrade")) # <<>>
        listed == { CanonicalMIMEHeaderKey(k) : k \in ConnectionListed(in) }
    IN /\ \A e \in out : e.name \in HopHeaders =>
            \/ trailers /\ e = te
            \/ upgrade /\ e \in {co, up}
       /\ trailers => te \in out
       /\ upgrade => co \in out /\ up \in out
       /\ \A e \in in : e.name \in listed \ HopHeaders =>
            \A o \in out : o.name # e.name
       /\ \A e \in in : e.name \notin (listed \cup HopHeaders \cup {xff}) => e \in out
       /\ \A e \in out : e \in in \/ e.name \in {xff, ua} \/ e \in {te, co, up}
       /\ \E e \in out :
            /\ e.name = xff
            /\ e.value = <<JoinComma(HeaderValues(in, xff) \o <<Chars("127.0.0.1")>>)>>
       /\ \E e \in out :
            /\ e.name = ua
            /\ e \in in \/ (e.value = <<<<>>>> /\ \A i \in in : i.name # ua)
       /\ \A e, f \in out : e.name = f.name => e = f

\* C19 witness: a request came with Connection: keep-alive, x-trace, with
\* Keep-Alive, X-Trace, TE: trailers, Proxy-Authorization, X-Forwarded-For
\* and Accept; the outbound request holds Accept, Te: trailers (as it came),
\* the extended X-Forwarded-For and an empty User-Agent.
C19_Witness ==
  /\ Cleaned
  /\ [name |-> Chars("Connection"), value |-> <<Chars("keep-alive, x-trace")>>]
       \in req.in.header
  /\ [name |-> Chars("Te"), value |-> <<Chars("trailers")>>] \in req.in.header
  /\ req.out.header =
       { [name |-> Chars("Accept"), value |-> <<Chars("*/*")>>],
         [name |-> Chars("Te"), value |-> <<Chars("trailers")>>],
         [name |-> Chars("X-Forwarded-For"), value |-> <<Chars("10.0.0.1, 127.0.0.1")>>],
         [name |-> Chars("User-Agent"), value |-> << <<>> >>] }

\* C20: ValidateURL returns nil exactly when the string parses as a URL, the
\* scheme is http or https and the host is not empty; otherwise it returns
\* the error of the first of these that fails (cannot parse, invalid scheme,
\* empty host). On the inputs of TestValidateURL it returns what the test
\* expects.
C20_ValidateURLNilIffWellFormed ==
  \A k \in {"target", "proxy"} :
    valRes[k] # "none" =>
      LET rawURL == IF k = "target" THEN cfgTarget ELSE cfgProxy
          parsed == Parse(rawURL)
          parses == parsed.err = Nil
          schemeOK == parsed.scheme \in {Chars("http"), Chars("https")}
          hostOK == parsed.host # <<>>
      IN /\ valRes[k] = Nil <=> parses /\ schemeOK /\ hostOK
         /\ valRes[k] = ErrCannotParse <=> ~parses
         /\ valRes[k] = ErrInvalidScheme <=> parses /\ ~schemeOK
         /\ valRes[k] = ErrEmptyHost <=> parses /\ schemeOK /\ ~hostOK
         /\ \A t \in UrlTests : t.rawURL = rawURL => valRes[k] = t.expect

\* C20 witness: ValidateURL has accepted a URL with path, query and fragment
\* and has rejected "http:example.com", which parses with scheme http and no
\* host.
C20_Witness ==
  /\ cfgTarget = Chars("https://example.com/path?query=value#fragment")
  /\ valRes.target = Nil
  /\ cfgProxy = Chars("http:example.com")
  /\ valRes.proxy = ErrEmptyHost
  /\ Parse(cfgProxy).opaque = Chars("example.com")

\* C21: LoggingConfig.Validate returns an error exactly when the level is
\* not a valid level, or the format is not a valid format, or the output is
\* not a valid output, or the output is "file" with an empty path, and nil
\* otherwise; it agrees with every row of TestLoggingConfigValidate.
C21_ValidateErrorIffInvalid ==
  /\ \A t \in LoggingTests : (LoggingValidate(t.config) # Nil) = t.expectError
  /\ logger.valid # "none" =>
       ((logger.valid # Nil) <=>
          \/ cfgLogging.level \notin ValidLogLevels
          \/ cfgLogging.format \notin ValidLogFormats
          \/ cfgLogging.output \notin ValidLogOutputs
          \/ (cfgLogging.output = "file" /\ cfgLogging.path = ""))

\* C21 witness: Validate has returned an error for settings whose only
\* fault is the missing path of a file output.
C21_Witness ==
  /\ logger.valid # "none"
  /\ logger.valid # Nil
  /\ cfgLogging.level \in ValidLogLevels
  /\ cfgLogging.format \in ValidLogFormats
  /\ cfgLogging.output = "file"
  /\ cfgLogging.path = ""

\* C22: parseLevel maps "debug", "info", "warn" and "error" to the slog
\* level of that name and gives the Info level for every string that is not
\* a level (the empty string among them); it agrees with every row of
\* TestParseLevel, and the Logger that logging.New makes has that threshold.
\* (The rows of the table do not depend on the state: they are evaluated
\* where no Logger has been made yet.)
C22_ParseLevelMapsOrInfo ==
  /\ logger = NoLogger =>
       /\ \A t \in ParseLevelTests : parseLevel(t.inputConfigLvl) = t.expectedSlogLvl
       /\ \A l \in {"", "verbose", "fatal", "error-", "invalid_level_value"} :
            UnmarshalText(Chars(l)).err # Nil
  /\ (logger.st = "open" /\ logger.exitFunc = "os.Exit") =>
       /\ cfgLogging.level = "debug" => logger.level = LevelDebug
       /\ cfgLogging.level = "info" => logger.level = LevelInfo
       /\ cfgLogging.level = "warn" => logger.level = LevelWarn
       /\ cfgLogging.level = "error" => logger.level = LevelError
       /\ UnmarshalText(Chars(cfgLogging.level)).err # Nil => logger.level = LevelInfo

\* C22 witness: logging.New has made a Logger from settings with the empty
\* level, and its threshold is Info.
C22_Witness ==
  /\ logger.st = "open"
  /\ logger.exitFunc = "os.Exit"
  /\ cfgLogging.level = ""
  /\ logger.level = LevelInfo

\* C23: Logger.Close returns what closing the underlying writer returns:
\* nil on every call for a Logger on standard output or standard error and
\* for a Logger with no closer; for a Logger on a file, nil on the first call
\* and an error on every later call.
C23_CloseReturnsCloserResult ==
  logger.closes > 0 =>
    /\ logger.closer \in {"nil", "nop"} => logger.closeRes = Nil
    /\ (logger.closer = "file" /\ logger.closes = 1) => logger.closeRes = Nil
    /\ (logger.closer = "file" /\ logger.closes > 1) => logger.closeRes = ErrFileClosed

\* C23 witness: a Logger on a file has been closed three times and the last
\* call returned an error.
C23_Witness ==
  /\ logger.closer = "file"
  /\ logger.closes = 3
  /\ logger.closeRes = ErrFileClosed

\* C24: Logger.Fatal first hands the message with its key/value arguments to
\* the handler at the Error level and then calls the exit function once, with
\* code 1 (os.Exit, which ends the process, when no exit function is set):
\* the exit function is called only by a Fatal that has logged its event, and
\* the call ends that Fatal.
C24_FatalLogsThenExitsOnce ==
  [][/\ (logger.pc = "idle" /\ logger'.pc = "fatal") =>
          /\ logger'.last.level = LevelError
          /\ logger'.last.msg = "critical failure happened"
          /\ logger'.last.args = <<"code", 123, "component", "test">>
          /\ logger'.exits = logger.exits
          /\ ~exited'
     /\ logger'.exits # logger.exits =>
          /\ logger.pc = "fatal"
          /\ logger.last.level = LevelError
          /\ logger.last.msg = "critical failure happened"
          /\ logger'.last = logger.last
          /\ logger'.exits = Append(logger.exits, 1)
          /\ logger'.pc = "idle"
          /\ logger.exitFunc \in {"nil", "os.Exit"} => (exited' /\ exitCode' = 1)
          /\ logger.exitFunc = "mock" => ~exited'
     /\ (logger.pc = "fatal" /\ logger'.pc # "fatal") => logger'.exits # logger.exits
    ]_vars

\* C24 witness: a Logger with no exit function has logged the event of a
\* Fatal call and os.Exit(1) has ended the process.
C24_Witness ==
  /\ logger.exitFunc = "nil"
  /\ logger.exits = <<1>>
  /\ logger.last.level = LevelError
  /\ logger.last.msg = "critical failure happened"
  /\ exited
  /\ exitCode = 1

ErrorHandled(c) == conn[c].st = "failed" /\ conn'[c].st # "failed" /\ ~exited'

\* The step in which Shutdown call s begins, and the one in which it returns.
ShutdownBegun(s) == sdPc[s] = "idle" /\ sdPc'[s] # "idle"
ShutdownEnded(s) == sdPc[s] # "returned" /\ sdPc'[s] = "returned"

\* C26 as stated: the core logs one error event with url and error per
\* upstream failure, and a debug or info event when Shutdown begins and when
\* it ends, and nowhere else.
C26_LogsAtFailureAndShutdownBeginEnd ==
  [][/\ \A c \in Conns : ErrorHandled(c) =>
          /\ logger'.last.level = LevelError
          /\ logger'.last.args = <<"url", RequestURL, "error", conn[c].err>>
     /\ \A s \in ShutdownCalls : ShutdownBegun(s) =>
          logger'.last.level \in {LevelDebug, LevelInfo}
     /\ \A s \in ShutdownCalls : ShutdownEnded(s) =>
          (logger' # logger /\ logger'.last.level \in {LevelDebug, LevelInfo})
     /\ logger' # logger =>
          \/ \E c \in Conns : ErrorHandled(c)
          \/ \E s \in ShutdownCalls : ShutdownBegun(s) \/ ShutdownEnded(s)]_vars

\* C26, amended: the core logs one error event with url and error per
\* upstream failure and one debug event when Shutdown begins; a Shutdown
\* that returns logs nothing, and the core logs nowhere else.
C26_LogsAtFailureAndShutdownBegin ==
  [][/\ \A c \in Conns : ErrorHandled(c) =>
          /\ logger'.last.level = LevelError
          /\ logger'.last.msg = "Reverse proxy error"
          /\ logger'.last.args = <<"url", RequestURL, "error", conn[c].err>>
     /\ \A s \in ShutdownCalls : ShutdownBegun(s) =>
          /\ logger'.last.level = LevelDebug
          /\ logger'.last.msg = "Shutting down HTTP server..."
     /\ \A s \in ShutdownCalls : ShutdownEnded(s) => logger' = logger
     /\ logger' # logger =>
          \/ \E c \in Conns : ErrorHandled(c)
          \/ \E s \in ShutdownCalls : ShutdownBegun(s)]_vars

\* C26 witness: a Shutdown has returned and the last event the Logger got
\* is still the error event of an upstream failure.
C26_Witness ==
  /\ \E s \in ShutdownCalls : sdPc[s] = "returned"
  /\ logger.last.level = LevelError
  /\ logger.last.msg = "Reverse proxy error"
  /\ \E c \in Conns : conn[c].last.status = StatusBadGateway

\* C27: every level the validation accepts gets its own threshold from
\* parseLevel: when LoggingConfig.Validate has returned nil and logging.New
\* has made the Logger, the level was parsed (the Info fallback was not
\* taken) and no other accepted level has the same threshold.
C27_AcceptedLevelsHaveOwnThreshold ==
  (logger.valid = Nil /\ logger.st = "open" /\ logger.exitFunc = "os.Exit") =>
    /\ UnmarshalText(Chars(cfgLogging.level)).err = Nil
    /\ \A l \in ValidLogLevels \ {cfgLogging.level} : parseLevel(l) # logger.level

\* C28: the goroutine never blocks forever on errChan <- Run's result: when
\* Run has returned the send can complete at once, whichever branch the main
\* flow took, and it does complete unless the process exits first.
C28_SendCompletes ==
  /\ []((gPc = "serving" /\ runPc[1] = "returned" /\ ~exited) => ENABLED GoSend)
  /\ ((gPc = "serving" /\ runPc[1] = "returned") ~> (gPc = "done" \/ exited))

\* C28 witness: the main flow took the signal branch and is past its
\* select, and the goroutine has delivered Run's result into errChan, where
\* nothing will receive it.
C28_Witness ==
  /\ mainPc \in {"shutdown", "inShutdown", "close", "return"}
  /\ gPc = "done"
  /\ Len(errChan) = 1
  /\ ~exited

\* C29: no log event is emitted after the logger has been closed: every
\* call of a Logger method, by the main flow, the server goroutine or a
\* request handler, comes before logger.Close.
C29_NoEventAfterClose == ~logger.late

\* C30 as stated: Shutdown is invoked at most once in a process and only
\* after a signal was received; once Run has returned before any signal,
\* Shutdown is never invoked.
C30_NoShutdownOnceRunReturned ==
  /\ [][ShutdownBegun(1) => signalled]_vars
  /\ [](sdPc[2] = "idle")
  /\ []((runPc[1] = "returned" /\ ~signalled) => [](sdPc[1] = "idle"))

====
